---- MODULE Spec2Model ----
(***************************************************************************)
(* Model of the axiscore backend (src/backend): the archive extraction     *)
(* cascade and the model-file classifier of archive_utils.py, the model    *)
(* storage resolver of app.py (save_model_to_storage / serve_model),       *)
(* DatabaseManager.save_model of db_utils.py, the Telegram webhook of      *)
(* app.py with the module attributes its tests set, the login and the      *)
(* other endpoints on the models table, and the transaction decorators of  *)
(* app.py, error_utils.py and db_utils.py.                                 *)
(*                                                                         *)
(* Text is modelled as a sequence of tokens.  A path token is "/", "." or  *)
(* a run of characters containing neither; base64 text is a sequence of    *)
(* sextet numbers.  The PostgreSQL server and the psycopg2 driver are the  *)
(* environment: a statement that fails on the server aborts the open       *)
(* transaction, a value the driver cannot adapt fails before anything is   *)
(* sent.                                                                   *)
(***************************************************************************)
EXTENDS Integers, Sequences, FiniteSets, TLC

VARIABLES
    \* ---- archive_utils.py ----
    USE_COMMAND_LINE_TOOLS,     \* module flag, archive_utils.py:9
    PYTHON_ARCHIVE_AVAILABLE,   \* module flag, archive_utils.py:12-19
    tools,                      \* how each extraction backend behaved on the archive
    archive,                    \* the archive handed to extract_archive
    tmpdirs,                    \* extraction directories that exist: id -> files
    result,                     \* what the last extract_archive call returned
    attempts,                   \* backends the last extract_archive call ran, in order
    phase,                      \* "idle" | "extracted" | "cleaned"
    \* ---- find_3d_model_files ----
    file_list,                  \* argument of the last find_3d_model_files call
    models_found,               \* its return value
    composed,                   \* what find_3d_model_files made of result['files']
    \* ---- the relational store and its handlers ----
    models,                     \* committed rows of table models, in insertion order
    large_model_content,        \* committed rows of table large_model_content
    model_content,              \* committed rows of table model_content (db_utils.py)
    schema,                     \* which tables and optional columns exist
    next_uuid,                  \* number of the next identifier uuid4() hands out
    last,                       \* the last storage call and what it returned
    returned,                   \* every path a save has returned, with what was sent
    \* ---- POST /webhook ----
    IGNORE_ALL_ARCHIVES,        \* app.IGNORE_ALL_ARCHIVES, as the tests assign it
    PROCESSING_FILES,           \* app.PROCESSING_FILES, as the tests assign it
    failed_archives,            \* file ids with a row in table failed_archives
    handlers,                   \* the requests being served, one per worker thread
    answered,                   \* the request answered last: its calls and response
    \* ---- users: POST /telegram_auth and DatabaseManager.create_user ----
    users,                      \* committed rows of table users
    ulast,                      \* the last call about a user and what it returned
    \* ---- the transaction decorators ----
    conns,                      \* the psycopg2 connection objects made so far
    conn,                       \* app.conn: the connection in use, 0 for None
    captured,                   \* the conn error_utils.db_transaction was given
    manager_conn,               \* DatabaseManager.conn, 0 for None
    tlast                       \* the last decorated call and what its wrapper did

avars == <<USE_COMMAND_LINE_TOOLS, PYTHON_ARCHIVE_AVAILABLE, tools, archive,
           tmpdirs, result, attempts, phase>>
cvars == <<file_list, models_found, composed>>
svars == <<models, large_model_content, model_content, schema, next_uuid, last, returned>>
wvars == <<IGNORE_ALL_ARCHIVES, PROCESSING_FILES, failed_archives, handlers, answered>>
tvars == <<conns, conn, captured, manager_conn, tlast>>
xvars == <<users, ulast, tvars>>
vars == <<avars, cvars, svars, wvars, xvars>>

(***************************************************************************)
(* Bounds                                                                  *)
(***************************************************************************)
MaxArchiveFiles == 2    \* files inside the archive handed to extract_archive
MaxFileList == 2        \* length of the list handed to find_3d_model_files
MaxModels == 2          \* models saved in one behaviour

(***************************************************************************)
(* Paths: pathlib.Path(p).suffix, str.lower, os.path.basename              *)
(***************************************************************************)
RECURSIVE SplitComponents(_, _, _)
\* the "/"-separated components of a path, left to right
SplitComponents(p, cur, acc) ==
    IF p = <<>> THEN Append(acc, cur)
    ELSE IF Head(p) = "/" THEN SplitComponents(Tail(p), <<>>, Append(acc, cur))
    ELSE SplitComponents(Tail(p), Append(cur, Head(p)), acc)

\* pathlib drops empty components (repeated and trailing slashes) and "."
PathParts(p) ==
    SelectSeq(SplitComponents(p, <<>>, <<>>), LAMBDA c : c # <<>> /\ c # <<".">>)

\* PurePath.name: the final component, "" when there is none
PathName(p) ==
    LET parts == PathParts(p)
    IN IF parts = <<>> THEN <<>> ELSE parts[Len(parts)]

\* position of the last "." token of a name, 0 when there is none (str.rfind)
LastDot(name) ==
    LET dots == {i \in 1..Len(name) : name[i] = "."}
    IN IF dots = {} THEN 0 ELSE CHOOSE i \in dots : \A j \in dots : j <= i

\* PurePath.suffix: name[i:] when 0 < i < len(name) - 1 (0-based), else ""
PathSuffix(p) ==
    LET name == PathName(p)
        i == LastDot(name)
    IN IF i > 1 /\ i < Len(name) THEN SubSeq(name, i, Len(name)) ELSE <<>>

RECURSIVE LeadingDots(_)
\* number of "." tokens a name starts with
LeadingDots(name) ==
    IF name # <<>> /\ Head(name) = "." THEN 1 + LeadingDots(Tail(name)) ELSE 0

\* os.path.basename: the text after the last "/", nothing stripped
Basename(p) ==
    LET comps == SplitComponents(p, <<>>, <<>>)
    IN comps[Len(comps)]

\* os.path.splitext(p)[1]: from the last "." of the basename on, unless that
\* dot is one of the leading dots
SplitExt(p) ==
    LET name == Basename(p)
        i == LastDot(name)
    IN IF i > LeadingDots(name) THEN SubSeq(name, i, Len(name)) ELSE <<>>

\* str.lower on the tokens that carry upper-case letters
LowerTok(t) ==
    CASE t = "GLB" -> "glb"
      [] t = "Obj" -> "obj"
      [] t = "GLTF" -> "gltf"
      [] t = "ZIP" -> "zip"
      [] OTHER -> t

Lower(s) == [i \in 1..Len(s) |-> LowerTok(s[i])]

(***************************************************************************)
(* archive_utils.extract_archive                                           *)
(***************************************************************************)
Backends == {"pylib", "patool", "7z", "unrar-free", "unrar", "unzip"}

\* A backend run on the archive either returns normally (ok) or raises, and
\* either left the archive's files in the extraction directory or left none.
ToolBehaviours == [ok : BOOLEAN, writes : BOOLEAN]

\* names of the files inside the archive; the second one is not valid UTF-8
ArchiveNames ==
    << [name |-> <<"a", ".", "glb">>, utf8 |-> TRUE],
       [name |-> <<"sub", "/", "b", ".", "Obj">>, utf8 |-> FALSE],
       [name |-> <<"readme", ".", "txt">>, utf8 |-> TRUE],
       [name |-> <<"c", ".", "fbx">>, utf8 |-> TRUE] >>

ArchivePaths ==
    { <<"m", ".", e>> : e \in {"rar", "zip", "ZIP", "7z", "tar"} } \cup { <<"m">> }

Archives == [path : ArchivePaths, nfiles : 1..MaxArchiveFiles]

NoError == [isNone |-> TRUE, text |-> "", includes |-> {}]
ErrorOf(text, incl) == [isNone |-> FALSE, text |-> text, includes |-> incl]

\* the format-specific library try_python_extraction uses for a type
PyLib(archive_type) ==
    CASE archive_type = "rar" -> "rarfile"
      [] archive_type = "zip" -> "zipfile"
      [] archive_type = "7z" -> "py7zr"
      [] OTHER -> "patoolib"

\* behaviour entry of a logged backend name
ToolOf(b) ==
    IF b \in {"rarfile", "zipfile", "py7zr"} THEN "pylib"
    ELSE IF b = "patoolib" THEN "patool" ELSE b

\* one backend run: logged, and its files land in the extraction directory
Run(st, b, arch, tl) ==
    [st EXCEPT !.attempts = Append(@, b),
               !.dir = @ \cup (IF tl[ToolOf(b)].writes THEN 1..arch.nfiles ELSE {})]

Ok(b, tl) == tl[ToolOf(b)].ok

Succeed(st) == [st EXCEPT !.success = TRUE]
Raise(st, text, incl) == [st EXCEPT !.raised = TRUE, !.error = ErrorOf(text, incl)]

\* try_python_extraction, archive_utils.py:246-298: [st, ret] where ret is
\* its return value
try_python_extraction(st, archive_type, arch, tl, py) ==
    IF ~py THEN [st |-> st, ret |-> FALSE]
    ELSE IF Ok(PyLib(archive_type), tl)
         THEN [st |-> Succeed(Run(st, PyLib(archive_type), arch, tl)), ret |-> TRUE]
         ELSE [st |-> Run(st, PyLib(archive_type), arch, tl), ret |-> FALSE]

\* "Try Python-based extraction first if command line tools are disabled":
\* return result when it worked, else the raise of the else branch
\* (archive_utils.py:59-62 with 119-121, 125-128 with 162-164, 168-171 with 193-195)
LibraryAlone(first, label) ==
    IF first.ret THEN [first.st EXCEPT !.returned = TRUE]
    ELSE Raise(first.st,
               "Python-based " \o label \o " extraction failed and command-line tools are disabled",
               {})

\* what follows try_python_extraction as the fallback of the last tool
AfterLibraryFallback(d, label) ==
    IF d.ret THEN d.st
    ELSE Raise(d.st, "All " \o label \o " extraction methods failed", {})

\* "Try Python-based extraction as fallback" in the handler of the last
\* command-line tool, archive_utils.py:112-118, 155-161, 186-192
LibraryFallback(st, archive_type, label, arch, tl, py) ==
    IF py THEN AfterLibraryFallback(try_python_extraction(st, archive_type, arch, tl, py),
                                    label)
    ELSE Raise(st, "Failed to extract " \o label
                       \o " file, both command-line and Python methods unavailable", {})

\* the ".rar" tools from the innermost handler outwards, archive_utils.py:64-118;
\* the argument is the state after the tool has run
RarUnrar(c, arch, tl, py) ==
    IF Ok("unrar", tl) THEN Succeed(c)
    ELSE LibraryFallback(c, "rar", "RAR", arch, tl, py)

RarUnrarFree(b, arch, tl, py) ==
    IF Ok("unrar-free", tl) THEN Succeed(b)
    ELSE RarUnrar(Run(b, "unrar", arch, tl), arch, tl, py)

Rar7z(a, arch, tl, py) ==
    IF Ok("7z", tl) THEN Succeed(a)
    ELSE RarUnrarFree(Run(a, "unrar-free", arch, tl), arch, tl, py)

\* the ".rar" branch, archive_utils.py:57-121
RarBranch(st0, arch, tl, cli, py) ==
    IF ~cli /\ py
    THEN LibraryAlone(try_python_extraction(st0, "rar", arch, tl, py), "RAR")
    ELSE IF cli THEN Rar7z(Run(st0, "7z", arch, tl), arch, tl, py)
    ELSE Raise(st0, "Python-based RAR extraction failed and command-line tools are disabled", {})

\* the ".zip" tools, archive_utils.py:130-161
Zip7z(b, arch, tl, py) ==
    IF Ok("7z", tl) THEN Succeed(b)
    ELSE LibraryFallback(b, "zip", "ZIP", arch, tl, py)

ZipUnzip(a, arch, tl, py) ==
    IF Ok("unzip", tl) THEN Succeed(a)
    ELSE Zip7z(Run(a, "7z", arch, tl), arch, tl, py)

\* the ".zip" branch, archive_utils.py:123-164
ZipBranch(st0, arch, tl, cli, py) ==
    IF ~cli /\ py
    THEN LibraryAlone(try_python_extraction(st0, "zip", arch, tl, py), "ZIP")
    ELSE IF cli THEN ZipUnzip(Run(st0, "unzip", arch, tl), arch, tl, py)
    ELSE Raise(st0, "Python-based ZIP extraction failed and command-line tools are disabled", {})

\* the ".7z" tool, archive_utils.py:173-192
SevenZ7z(a, arch, tl, py) ==
    IF Ok("7z", tl) THEN Succeed(a)
    ELSE LibraryFallback(a, "7z", "7z", arch, tl, py)

\* the ".7z" branch with the library tried first whatever the flag says
SevenZBranch_LibraryFirst(st0, arch, tl, cli, py) ==
    IF py /\ Ok("py7zr", tl)
    THEN LibraryAlone(try_python_extraction(st0, "7z", arch, tl, py), "7z")
    ELSE IF cli
         THEN SevenZ7z(Run(try_python_extraction(st0, "7z", arch, tl, py).st,
                           "7z", arch, tl),
                       arch, tl, FALSE)
    ELSE LibraryAlone(try_python_extraction(st0, "7z", arch, tl, py), "7z")

\* the ".7z" branch, archive_utils.py:166-195
SevenZBranch(st0, arch, tl, cli, py) ==
    IF ~cli /\ py
    THEN LibraryAlone(try_python_extraction(st0, "7z", arch, tl, py), "7z")
    ELSE IF cli THEN SevenZ7z(Run(st0, "7z", arch, tl), arch, tl, py)
    ELSE Raise(st0, "Python-based 7z extraction failed and command-line tools are disabled", {})

\* "Last resort - try patool if available", archive_utils.py:210-220
GenericPatool(b, tl) ==
    IF Ok("patoolib", tl) THEN Succeed(b)
    ELSE Raise(b, "All extraction methods failed: ", {"patoolib"})

Generic7z(a, arch, tl, py) ==
    IF Ok("7z", tl) THEN Succeed(a)
    ELSE IF py THEN GenericPatool(Run(a, "patoolib", arch, tl), tl)
    ELSE Raise(a, "All extraction methods failed, and Python fallbacks not available", {})

\* "Fallback to 7z for any format if still not successful", archive_utils.py:197-220
GenericFallback(st, arch, tl, cli, py) ==
    IF ~st.success /\ cli THEN Generic7z(Run(st, "7z", arch, tl), arch, tl, py)
    ELSE st

\* list_files_recursive over the files an extraction left, archive_utils.py:300-345
\* (a name that is not UTF-8 is renamed to renamed_file_<uuid><ext>; the
\* rename inside the directory the call has just created goes through)
ListEntry(i) ==
    LET f == ArchiveNames[i]
        rel_path == IF f.utf8 THEN f.name
                    ELSE <<"renamed_file_">> \o SplitExt(f.name)
    IN [path |-> rel_path, filename |-> Basename(rel_path),
        extension |-> Lower(SplitExt(rel_path))]

RECURSIVE ListFrom(_, _)
ListFrom(dir, i) ==
    IF i > Len(ArchiveNames) THEN <<>>
    ELSE (IF i \in dir THEN <<ListEntry(i)>> ELSE <<>>) \o ListFrom(dir, i + 1)

list_files_recursive(dir) == ListFrom(dir, 1)

\* "If extraction succeeded but no files were found", archive_utils.py:222-231
ListingCheck(st) ==
    IF st.success THEN
        LET fl == list_files_recursive(st.dir) IN
        IF fl = <<>> THEN
            [st EXCEPT !.success = FALSE,
                       !.error = ErrorOf("Extraction appeared to succeed but no files were found", {})]
        ELSE [st EXCEPT !.files = fl]
    ELSE st

\* the result dictionary as extract_archive initialises it, archive_utils.py:47-53
FreshRun ==
    [success |-> FALSE, error |-> NoError, files |-> <<>>, dir |-> {},
     attempts |-> <<>>, returned |-> FALSE, raised |-> FALSE]

\* the branch of the extension, archive_utils.py:57-195
FormatBranch(file_ext, arch, tl, cli, py) ==
    CASE file_ext = <<".", "rar">> -> RarBranch(FreshRun, arch, tl, cli, py)
      [] file_ext = <<".", "zip">> -> ZipBranch(FreshRun, arch, tl, cli, py)
      [] file_ext = <<".", "7z">> -> SevenZBranch(FreshRun, arch, tl, cli, py)
      [] OTHER -> FreshRun

\* control reaches a later part of the try body only if nothing before it
\* returned or raised
AfterBranch(s1, arch, tl, cli, py) ==
    IF s1.returned \/ s1.raised THEN s1 ELSE GenericFallback(s1, arch, tl, cli, py)

AfterFallback(s2) ==
    IF s2.returned \/ s2.raised THEN s2 ELSE ListingCheck(s2)

\* the except handler, archive_utils.py:233-236
Handled(s3) ==
    IF s3.raised THEN [s3 EXCEPT !.success = FALSE] ELSE s3

\* the body of extract_archive up to its return, archive_utils.py:45-244
ExtractRun(arch, tl, cli, py) ==
    Handled(AfterFallback(AfterBranch(
        FormatBranch(Lower(PathSuffix(arch.path)), arch, tl, cli, py),
        arch, tl, cli, py)))

\* the backends extract_archive has for an extension, whatever the flags
UsedBackends(file_ext) ==
    CASE file_ext = <<".", "rar">> -> {"7z", "unrar-free", "unrar", "pylib"}
      [] file_ext = <<".", "zip">> -> {"unzip", "7z", "pylib"}
      [] file_ext = <<".", "7z">> -> {"7z", "pylib"}
      [] OTHER -> {"7z", "patool"}

WorkingTools == [b \in Backends |-> [ok |-> TRUE, writes |-> TRUE]]

\* how the backends behave on an archive: any behaviour for those its
\* extension can reach, the others are never run
ToolChoices(arch) ==
    { tl \in [Backends -> ToolBehaviours] :
        \A b \in Backends \ UsedBackends(Lower(PathSuffix(arch.path))) :
            tl[b] = WorkingTools[b] }

\* extract_archive(file_path), archive_utils.py:22-244.  The except handler
\* removes the directory; when rmtree itself fails the path stays in the result.
ExtractArchive ==
    /\ phase = "idle"
    /\ \E arch \in Archives, rmtree_ok \in BOOLEAN :
       \E tl \in ToolChoices(arch) :
        LET r == ExtractRun(arch, tl, USE_COMMAND_LINE_TOOLS, PYTHON_ARCHIVE_AVAILABLE)
            id == Len(tmpdirs) + 1
            removed == r.raised /\ rmtree_ok
        IN /\ (~r.raised => rmtree_ok)
           /\ tools' = tl
           /\ archive' = arch
           /\ tmpdirs' = Append(tmpdirs, [exists |-> ~removed,
                                          files |-> IF removed THEN {} ELSE r.dir])
           /\ result' = [success |-> r.success,
                         extract_path |-> IF removed THEN {} ELSE {id},
                         error |-> r.error,
                         files |-> r.files]
           /\ attempts' = r.attempts
           /\ phase' = "extracted"
    /\ UNCHANGED <<USE_COMMAND_LINE_TOOLS, PYTHON_ARCHIVE_AVAILABLE, cvars, xvars, svars, wvars>>

\* cleanup_extraction(result['extract_path']) run by the caller,
\* archive_utils.py:373-387
CleanupExtraction ==
    /\ phase = "extracted"
    /\ \E rmtree_ok \in BOOLEAN :
        tmpdirs' = [i \in 1..Len(tmpdirs) |->
                      IF i \in result.extract_path /\ tmpdirs[i].exists /\ rmtree_ok
                      THEN [exists |-> FALSE, files |-> {}]
                      ELSE tmpdirs[i]]
    /\ phase' = "cleaned"
    /\ UNCHANGED <<USE_COMMAND_LINE_TOOLS, PYTHON_ARCHIVE_AVAILABLE, tools, archive,
                   result, attempts, cvars, xvars, svars, wvars>>

(***************************************************************************)
(* archive_utils.find_3d_model_files                                       *)
(***************************************************************************)
\* the allow-list with one format forgotten
model_extensions_without_obj ==
    { <<".", "glb">>, <<".", "gltf">>, <<".", "fbx">> }

model_extensions ==
    { <<".", "glb">>, <<".", "gltf">>, <<".", "fbx">>, <<".", "obj">> }

RECURSIVE find_3d_model_files(_)
find_3d_model_files(fl) ==
    IF fl = <<>> THEN <<>>
    ELSE LET file_path == Head(fl)
             ext == Lower(PathSuffix(file_path))
         IN (IF ext \in model_extensions
             THEN << [path |-> file_path, extension |-> ext,
                      filename |-> Basename(file_path)] >>
             ELSE <<>>) \o find_3d_model_files(Tail(fl))

\* the paths a caller may pass: directory part, stem, ending
PathDirs == { <<>>, <<"d", ".", "obj", "/">> }
PathStems == { <<>>, <<"a">> }
PathEndings ==
    { <<>>, <<".", "glb">>, <<".", "GLB">>, <<".", "gltf">>, <<".", "fbx">>,
      <<".", "Obj">>, <<".", "txt">>, <<".", "glb", ".">>, <<".", "fbx", "/">> }
PathPool == { d \o s \o e : d \in PathDirs, s \in PathStems, e \in PathEndings }

RECURSIVE ListsUpTo(_, _)
ListsUpTo(S, n) ==
    IF n = 0 THEN { <<>> }
    ELSE LET shorter == ListsUpTo(S, n - 1)
         IN shorter \cup { Append(l, x) : l \in shorter, x \in S }

FileLists == ListsUpTo(PathPool, MaxFileList)

Find3dModelFiles ==
    /\ file_list = <<>>
    /\ \E fl \in FileLists :
        /\ file_list' = fl
        /\ models_found' = find_3d_model_files(fl)
    /\ UNCHANGED <<avars, svars, wvars, xvars, composed>>

\* Python values as callers hand them over: a str or a dict
PyStr(p) == [type |-> "str", value |-> p]
PyDict(d) == [type |-> "dict", value |-> d]

\* Path(file_path), archive_utils.py:366: pathlib raises TypeError for an
\* argument that is neither a str nor a path object
PathAccepts(x) == x.type = "str"

\* find_3d_model_files on a list of Python values: the models found, or the
\* TypeError of the first value Path() does not take
RECURSIVE FindIn(_)
FindIn(values) ==
    IF values = <<>> THEN [raised |-> FALSE, models |-> <<>>]
    ELSE IF ~PathAccepts(Head(values)) THEN [raised |-> TRUE, models |-> <<>>]
    ELSE [raised |-> FindIn(Tail(values)).raised,
          models |-> IF FindIn(Tail(values)).raised THEN <<>>
                     ELSE find_3d_model_files(<<Head(values).value>>)
                              \o FindIn(Tail(values)).models]

\* find_3d_model_files(result['files']) after a successful extraction,
\* test_archive.py:38: the entries list_files_recursive made are dicts
FindInResult ==
    /\ phase = "extracted"
    /\ result.success
    /\ composed' = [op |-> "find"] @@
                   FindIn([i \in 1..Len(result.files) |-> PyDict(result.files[i])])
    /\ UNCHANGED <<avars, file_list, models_found, svars, wvars, xvars>>

(***************************************************************************)
(* base64: text is a sequence of sextets 0..63, Pad is "=", Bang is a      *)
(* character outside the alphabet, Nul is the character 0x00               *)
(***************************************************************************)
Pad == 64
Bang == 65
Nul == 66

RECURSIVE B64Encode(_)
\* base64.b64encode(data).decode('utf-8'), app.py:1554
B64Encode(bytes) ==
    IF bytes = <<>> THEN <<>>
    ELSE IF Len(bytes) = 1 THEN
        << bytes[1] \div 4, (bytes[1] % 4) * 16, Pad, Pad >>
    ELSE IF Len(bytes) = 2 THEN
        << bytes[1] \div 4, (bytes[1] % 4) * 16 + bytes[2] \div 16,
           (bytes[2] % 16) * 4, Pad >>
    ELSE << bytes[1] \div 4, (bytes[1] % 4) * 16 + bytes[2] \div 16,
            (bytes[2] % 16) * 4 + bytes[3] \div 64, bytes[3] % 64 >>
         \o B64Encode(SubSeq(bytes, 4, Len(bytes)))

RECURSIVE B64Scan(_, _, _, _)
\* binascii.a2b_base64 in its default, non-strict mode: characters outside
\* the alphabet are skipped, enough padding after two or three sextets of a
\* quad ends the data, leftover sextets are an "Incorrect padding" error
B64Scan(text, quad, pads, out) ==
    IF text = <<>> THEN
        IF quad = <<>> THEN [ok |-> TRUE, bytes |-> out]
        ELSE [ok |-> FALSE, bytes |-> <<>>]
    ELSE LET c == Head(text) IN
         IF c = Pad THEN
            IF Len(quad) >= 2 /\ Len(quad) + pads + 1 >= 4
            THEN [ok |-> TRUE, bytes |-> out]
            ELSE B64Scan(Tail(text), quad, pads + 1, out)
         ELSE IF c > 63 THEN B64Scan(Tail(text), quad, pads, out)
         ELSE LET q == Append(quad, c) IN
              CASE Len(q) = 1 -> B64Scan(Tail(text), q, 0, out)
                [] Len(q) = 2 ->
                     B64Scan(Tail(text), q, 0,
                             Append(out, q[1] * 4 + q[2] \div 16))
                [] Len(q) = 3 ->
                     B64Scan(Tail(text), q, 0,
                             Append(out, (q[2] % 16) * 16 + q[3] \div 4))
                [] OTHER ->
                     B64Scan(Tail(text), <<>>, 0,
                             Append(out, (q[3] % 4) * 64 + q[4]))

\* base64.b64decode(content), app.py:889
\* a decoder that hands back what it has instead of raising
B64Decode_NeverRaises(text) == [B64Scan(text, <<>>, 0, <<>>) EXCEPT !.ok = TRUE]

B64Decode(text) == B64Scan(text, <<>>, 0, <<>>)

\* psycopg2 refuses to adapt a string that contains NUL (ValueError raised
\* by cursor.execute before anything reaches the server)
Adaptable(text) == \A i \in 1..Len(text) : text[i] # Nul

(***************************************************************************)
(* The relational store as app.py uses it                                  *)
(***************************************************************************)
BASE_URL == "http://localhost:5000"
DefaultTelegramId == "591646476"
OneMiB == 1048576

\* str(uuid.uuid4()): one token per identifier; UuidPart(k) is a piece of
\* identifier k that is too short to be an identifier itself
Uuid(k) == "uuid-" \o ToString(k)
UuidPart(k) == "part-" \o ToString(k)
Uuids == { Uuid(k) : k \in 1..(MaxModels + 1) }

\* f"/models/{model_id}/{filename}" and f"{BASE_URL}{model_path}"
ModelPath(model_id, filename) == <<"/", "models", "/", model_id, "/">> \o filename
ModelUrl(model_id, filename) == <<BASE_URL>> \o ModelPath(model_id, filename)

\* an extractor that finds no identifier in any text
extract_uuid_from_text_no_match(text) == {}

\* extract_uuid_from_text, app.py:68-74: the first identifier in the text,
\* {} for None
extract_uuid_from_text(text) ==
    LET hits == { i \in 1..Len(text) : text[i] \in Uuids }
    IN IF hits = {} THEN {}
       ELSE { text[CHOOSE i \in hits : \A j \in hits : i <= j] }

\* one token of a LIKE pattern lies inside one token of the text
TokenWithin(f, u) == u = f \/ \E k \in 1..(MaxModels + 1) : f = UuidPart(k) /\ u = Uuid(k)

\* model_url LIKE '%fragment%'
Like(text, fragment) ==
    \E i \in 1..(Len(text) - Len(fragment) + 1) :
        \A j \in 1..Len(fragment) : TokenWithin(fragment[j], text[i + j - 1])

\* optional columns of the models table
ModelColumns == {"content", "content_size", "created_at"}

\* the open transaction of the shared connection: what it would commit
BeginTxn(db) ==
    [models |-> db.models, large |-> db.large, content |-> db.content,
     schema |-> db.schema, aborted |-> FALSE]

\* conn.commit() on a transaction that is not aborted
Committed(t) ==
    [models |-> t.models, large |-> t.large, content |-> t.content, schema |-> t.schema]

\* INSERT INTO large_model_content (model_id, content), app.py:1667-1670
InsertLarge(t, model_id, content, fault) ==
    IF ~Adaptable(content) THEN [t |-> t, err |-> "client"]
    ELSE IF t.aborted THEN [t |-> t, err |-> "server"]
    ELSE IF fault \/ ~t.schema.large_table
         THEN [t |-> [t EXCEPT !.aborted = TRUE], err |-> "server"]
    ELSE [t |-> [t EXCEPT !.large = Append(@, [model_id |-> model_id, content |-> content])],
          err |-> "ok"]

\* INSERT INTO models (<cols>) VALUES ...: a column the table lacks is the
\* server error 'column "x" of relation "models" does not exist'
InsertModels(t, cols, row, fault) ==
    IF "content" \in cols /\ \E c \in row.content : ~Adaptable(c)
         THEN [t |-> t, err |-> "client"]
    ELSE IF t.aborted THEN [t |-> t, err |-> "server"]
    ELSE IF ~(cols \subseteq t.schema.cols)
         THEN [t |-> [t EXCEPT !.aborted = TRUE], err |-> "column"]
    ELSE IF fault THEN [t |-> [t EXCEPT !.aborted = TRUE], err |-> "server"]
    ELSE [t |-> [t EXCEPT !.models = Append(@,
                    [row EXCEPT !.content = IF "content" \in cols THEN @ ELSE {},
                                !.content_size = IF "content_size" \in cols THEN @ ELSE {}])],
          err |-> "ok"]

\* the filename save_model_to_storage settles on, app.py:1594-1608
SaveFilename(fd) ==
    IF fd.filename = <<>> \/ \A i \in 1..Len(fd.filename) : fd.filename[i] # "."
    THEN IF fd.mime_fbx THEN <<"model", ".", "fbx">> ELSE <<"model", ".", "glb">>
    ELSE fd.filename

\* file_data.get('size', len(file_data['content'])), app.py:1616
ContentSize(fd) == IF fd.size = {} THEN Len(fd.content) ELSE CHOOSE n \in fd.size : TRUE

\* the models insert with its column-error retry, app.py:1676-1716
StoreModelRow(t, content_size, row, fault) ==
    LET full == IF content_size > OneMiB THEN {"content_size", "created_at"}
                ELSE {"content", "content_size", "created_at"}
        reduced == IF content_size > OneMiB THEN {} ELSE {"content"}
        first == InsertModels(t, full, row, fault)
    IN IF first.err = "column" THEN InsertModels(first.t, reduced, row, FALSE)
       ELSE first

\* save_model_to_storage(file_data), app.py:1575-1742: the committed store
\* afterwards and the return value ({} for None)
SaveRun(db, fd, db_ok, fault, model_id) ==
    LET failed == [db |-> db, ret |-> {}]
        filename == SaveFilename(fd)
        content_size == ContentSize(fd)
        telegram_id == IF fd.telegram_id \in {"", "unknown"} THEN DefaultTelegramId
                       ELSE fd.telegram_id
        t0 == BeginTxn(db)
        t1 == [t0 EXCEPT !.schema.large_table = TRUE,
                         !.schema.cols = @ \cup {"content_size"}]
        side == InsertLarge(t1, model_id, fd.content, fault = "large")
        row == [telegram_id |-> telegram_id, model_name |-> filename,
                model_url |-> ModelUrl(model_id, filename),
                content |-> {fd.content}, content_size |-> {content_size}]
        stored == StoreModelRow(side.t, content_size, row, fault = "models")
    IN IF fd.content = <<>> \/ ~db_ok \/ fault = "begin" THEN failed
       ELSE IF stored.err # "ok" \/ fault = "commit" THEN failed
       ELSE [db |-> Committed(stored.t), ret |-> {ModelPath(model_id, filename)}]

\* get_content_type_from_extension(filename), app.py:56-66
EndsWithLower(name, word) ==
    /\ Len(name) >= 2
    /\ name[Len(name) - 1] = "."
    /\ LowerTok(name[Len(name)]) = word

\* the same without .lower()
get_content_type_from_extension_cased(file_extension) ==
    IF Len(file_extension) < 2 \/ file_extension[Len(file_extension) - 1] # "."
    THEN "application/octet-stream"
    ELSE IF file_extension[Len(file_extension)] = "glb" THEN "model/gltf-binary"
    ELSE IF file_extension[Len(file_extension)] = "gltf" THEN "model/gltf+json"
    ELSE IF file_extension[Len(file_extension)] = "obj" THEN "text/plain"
    ELSE "application/octet-stream"

get_content_type_from_extension(file_extension) ==
    IF EndsWithLower(file_extension, "glb") THEN "model/gltf-binary"
    ELSE IF EndsWithLower(file_extension, "gltf") THEN "model/gltf+json"
    ELSE IF EndsWithLower(file_extension, "fbx") THEN "application/octet-stream"
    ELSE IF EndsWithLower(file_extension, "obj") THEN "text/plain"
    ELSE "application/octet-stream"

ScanLimit == 50

JsonError(status, error) ==
    [status |-> status, error |-> error, body |-> <<>>, content_type |-> "application/json"]

\* the identifier of the request alone
ExtractedUuid_RequestOnly(db, model_id, row_pick) == extract_uuid_from_text(model_id)

\* the identifier steps 2 and 3 of serve_model go by: the one in the request,
\* else the one in the matched row's model_url, app.py:819-841
ExtractedUuid(db, model_id, row_pick) ==
    LET from_request == extract_uuid_from_text(model_id)
    IN IF row_pick # 0 /\ from_request = {}
       THEN extract_uuid_from_text(db.models[row_pick].model_url)
       ELSE from_request

\* serve_model(model_id, filename), app.py:796-927.  SQL leaves the order of
\* rows open: row_pick is the models row fetchone() hands back for the LIKE
\* query (0 when the query is empty) and scan_pick the large_model_content
\* row with content that the LIMIT query of step 3 lists first (0 when
\* there is none or the query is not run).
ServeRun(db, model_id, filename, db_ok, row_pick, scan_pick) ==
    LET extracted_uuid == ExtractedUuid(db, model_id, row_pick)
        by_uuid == { i \in 1..Len(db.large) :
                        db.large[i].model_id \in extracted_uuid /\ db.large[i].content # <<>> }
        step2 == IF by_uuid = {} THEN <<>> ELSE db.large[CHOOSE i \in by_uuid : TRUE].content
        content ==
            IF step2 = <<>> /\ extracted_uuid = {} /\ scan_pick # 0
            THEN db.large[scan_pick].content
            ELSE step2
        decoded == B64Decode(content)
    IN IF ~db_ok THEN JsonError(503, "DatabaseUnavailable")
       ELSE IF ~db.schema.large_table THEN JsonError(500, "UndefinedTable")
       ELSE IF content = <<>> THEN JsonError(404, "ModelNotFound")
       ELSE IF ~decoded.ok THEN JsonError(500, "Error")
       ELSE [status |-> 200, error |-> "", body |-> decoded.bytes,
             content_type |-> get_content_type_from_extension(filename)]

\* the rows the LIKE query of step 1 can hand back first
RowPicks(db, model_id) ==
    LET hits == { i \in 1..Len(db.models) : Like(db.models[i].model_url, model_id) }
    IN IF hits = {} THEN {0} ELSE hits

\* the rows the scan of step 3 can come upon first: any row among the at
\* most ScanLimit rows listed that has content
ScanPicks(db, model_id, row_pick) ==
    LET hits == { i \in 1..Len(db.large) : db.large[i].content # <<>> }
    IN IF hits = {} \/ ScanLimit = 0 \/ ExtractedUuid(db, model_id, row_pick) # {}
       THEN {0} ELSE hits

(***************************************************************************)
(* db_utils.DatabaseManager                                                *)
(***************************************************************************)
\* ensure_connection, db_utils.py:115-154.  c is the manager's connection:
\* its open transaction and whether it has one at all.  "SELECT 1" raises in
\* an aborted transaction; the handler then closes the connection, which
\* discards what the transaction had written, and connects again.
ensure_connection(c, db, reconnect_ok) ==
    IF c.up /\ ~c.t.aborted THEN [c |-> c, ret |-> TRUE]
    ELSE IF reconnect_ok THEN [c |-> [t |-> BeginTxn(db), up |-> TRUE], ret |-> TRUE]
    ELSE [c |-> [t |-> c.t, up |-> FALSE], ret |-> FALSE]

\* execute, db_utils.py:156-182: e is what ensure_connection gave and r what
\* the statement does on that connection; returns None (here FALSE) instead
\* of raising
DbmExecute(e, r) ==
    IF ~e.ret THEN [c |-> e.c, ret |-> FALSE]
    ELSE [c |-> [e.c EXCEPT !.t = r.t], ret |-> r.err = "ok"]

\* INSERT INTO model_content (model_id, content), db_utils.py:310-313
InsertContent(t, model_id, content, fault) ==
    IF ~Adaptable(content) THEN [t |-> t, err |-> "client"]
    ELSE IF t.aborted THEN [t |-> t, err |-> "server"]
    ELSE IF fault \/ ~t.schema.content_table
         THEN [t |-> [t EXCEPT !.aborted = TRUE], err |-> "server"]
    ELSE [t |-> [t EXCEPT !.content = Append(@, [model_id |-> model_id, content |-> content])],
          err |-> "ok"]

\* DatabaseManager.save_model(file_data, base_url), db_utils.py:224-373
DbmSaveRun(db, fd, db_ok, reconnect_ok, fault, model_id) ==
    LET failed == [db |-> db, ret |-> {}]
        filename == SaveFilename(fd)
        content_size == ContentSize(fd)
        telegram_id == IF fd.telegram_id \in {"", "unknown"} THEN DefaultTelegramId
                       ELSE fd.telegram_id
        c0 == [t |-> BeginTxn(db), up |-> TRUE]
        c1 == [c0 EXCEPT !.t.schema.content_table = TRUE,
                         !.t.schema.cols = @ \cup {"content_size"}]
        e2 == ensure_connection(c1, db, reconnect_ok)
        c2 == DbmExecute(e2, InsertContent(e2.c.t, model_id, fd.content,
                                           fault = "content")).c
        row == [telegram_id |-> telegram_id, model_name |-> filename,
                model_url |-> ModelUrl(model_id, filename),
                content |-> {}, content_size |-> {content_size}]
        e3 == ensure_connection(c2, db, reconnect_ok)
        c3 == DbmExecute(e3, InsertModels(e3.c.t, {"content_size", "created_at"},
                                          row, fault = "models")).c
    IN IF fd.content = <<>> \/ ~db_ok \/ fault = "begin" THEN failed
       ELSE IF fault = "commit" THEN failed
       ELSE [db |-> IF c3.up /\ ~c3.t.aborted THEN Committed(c3.t) ELSE db,
             ret |-> {ModelPath(model_id, filename)}]

\* what callers send: base64 text of some bytes, text that is not base64,
\* base64 text with a character from outside the alphabet in it, text with
\* a NUL character, and nothing
SampleBytes == { <<77>>, <<77, 97, 110, 255>> }
ValidContents == { B64Encode(b) : b \in SampleBytes }
BadBase64 == <<19>>
StrayContent == <<19, Bang, 16, Pad, Pad>>
NulContent == <<19, Nul, 16, Pad, Pad>>
Contents == ValidContents \cup { BadBase64, StrayContent, NulContent, <<>> }
FileDataSet ==
    [content : Contents, filename : { <<"a", ".", "glb">> }, mime_fbx : {FALSE},
     size : { {} }, telegram_id : {"42"}]
    \cup [content : { B64Encode(<<77>>), NulContent }, filename : { <<"a", ".", "glb">> },
          mime_fbx : {FALSE}, size : { {OneMiB}, {OneMiB + 1} }, telegram_id : {"42"}]
    \cup [content : { B64Encode(<<77>>) }, filename : { <<>>, <<"noext">> },
          mime_fbx : BOOLEAN, size : { {} }, telegram_id : {"unknown"}]

\* what the retrieval endpoint is asked for
Fragments ==
    { <<Uuid(k)>> : k \in 1..(MaxModels + 1) }
        \cup { <<UuidPart(1)>>, <<"models">>, <<"zzz">>, <<"zzz", Uuid(1)>> }
RequestNames ==
    { <<"a", ".", "glb">>, <<"a", ".", "Obj">>, <<"a", ".", "bin">>,
      <<"b", ".", "GLTF">>, <<"a", ".", "fbx">>, <<".", "glb">>, <<"glb">> }

\* the requests made of the endpoint: every fragment under one name, the
\* first identifier under every name, and one request with the database
\* down, where the answer is the same for every request
ServeRequests ==
    [model_id : Fragments, filename : { <<"a", ".", "glb">> }, db_ok : {TRUE}]
        \cup [model_id : { <<Uuid(1)>> }, filename : RequestNames, db_ok : {TRUE}]
        \cup [model_id : { <<"zzz">> }, filename : { <<"a", ".", "glb">> }, db_ok : {FALSE}]

\* what goes wrong during one save: nothing, no connection, or a server
\* error at one statement
SaveFaults == {"none", "db_down", "begin", "large", "models", "commit"}

Store ==
    [models |-> models, large |-> large_model_content, content |-> model_content,
     schema |-> schema]

\* a caller runs save_model_to_storage(file_data)
SaveModelToStorage ==
    /\ next_uuid <= MaxModels
    /\ \E fd \in FileDataSet, fault \in SaveFaults :
        LET model_id == Uuid(next_uuid)
            r == SaveRun(Store, fd, fault # "db_down", fault, model_id)
        IN /\ models' = r.db.models
           /\ large_model_content' = r.db.large
           /\ schema' = r.db.schema
           /\ next_uuid' = IF r.db = Store THEN next_uuid ELSE next_uuid + 1
           /\ last' = [op |-> "save", model_id |-> model_id, fd |-> fd, fault |-> fault,
                       ret |-> r.ret]
           /\ UNCHANGED model_content
           /\ returned' = returned \cup
                 { [path |-> p, model_id |-> model_id, content |-> fd.content] : p \in r.ret }
    /\ UNCHANGED <<avars, cvars, xvars, wvars>>

DbmFaults == {"none", "db_down", "begin", "content", "models", "commit"}

\* a caller runs db_manager.save_model(file_data, BASE_URL)
DbmSaveModel ==
    /\ next_uuid <= MaxModels
    /\ \E fd \in FileDataSet, reconnect_ok \in BOOLEAN, fault \in DbmFaults :
        LET model_id == Uuid(next_uuid)
            r == DbmSaveRun(Store, fd, fault # "db_down", reconnect_ok, fault, model_id)
        IN /\ models' = r.db.models
           /\ model_content' = r.db.content
           /\ schema' = r.db.schema
           /\ next_uuid' = IF r.db = Store /\ r.ret = {} THEN next_uuid ELSE next_uuid + 1
           /\ last' = [op |-> "dbm_save", model_id |-> model_id, fd |-> fd, fault |-> fault,
                       ret |-> r.ret]
           /\ returned' = returned \cup
                 { [path |-> p, model_id |-> model_id, content |-> fd.content] : p \in r.ret }
    /\ UNCHANGED <<avars, cvars, xvars, wvars, large_model_content>>

\* GET /models/<model_id>/<filename>
ServeModel ==
    /\ \E rq \in ServeRequests :
       \E row_pick \in RowPicks(Store, rq.model_id) :
       \E scan_pick \in ScanPicks(Store, rq.model_id, row_pick) :
        last' = [op |-> "serve", model_id |-> rq.model_id, filename |-> rq.filename,
                 db_ok |-> rq.db_ok,
                 resp |-> ServeRun(Store, rq.model_id, rq.filename, rq.db_ok,
                                   row_pick, scan_pick)]
    /\ UNCHANGED <<avars, cvars, xvars, wvars, models, large_model_content, model_content, schema,
                   next_uuid, returned>>

(***************************************************************************)
(* POST /webhook, app.py:547-698                                           *)
(***************************************************************************)
FileIds == {"f1", "f2"}
TELEGRAM_BOT_TOKEN == "123:secret"

\* what Telegram has for a file id: the file or no such file
NetOutcomes == {"ok", "not_found"}

\* webhook updates: a document of some name and mime type, a text, or an
\* update without a chat
NoEvent ==
    [kind |-> "none", chat |-> FALSE, file_id |-> "", file_name |-> <<>>,
     mime_model |-> FALSE, net |-> "", text |-> "", date |-> 0]
Document(f, name, mime, n) ==
    [NoEvent EXCEPT !.kind = "document", !.chat = TRUE, !.file_id = f,
                    !.file_name = name, !.mime_model = mime, !.net = n]
Documents ==
    { Document(f, name, FALSE, n) :
        f \in FileIds, n \in NetOutcomes,
        name \in { <<"a", ".", "glb">>, <<"m", ".", "zip">> } }
    \cup { Document("f2", <<"scene">>, TRUE, "ok") }
Texts == {"/911", "/disable", "/enable", "/start", "/help", "hello"}
\* message['date'] of the reset commands, in seconds
ResetDates == {0, 30, 100}
TextEvents ==
    { [NoEvent EXCEPT !.kind = "text", !.chat = TRUE, !.text = t] : t \in Texts }
        \cup { [NoEvent EXCEPT !.kind = "text", !.chat = TRUE, !.text = "/reset", !.date = d] :
                   d \in ResetDates }
Events == Documents \cup TextEvents \cup { [NoEvent EXCEPT !.kind = "text"] }

\* download_telegram_file(file_id), app.py:1521-1573: the file data, or
\* nothing ({} for None)
download_telegram_file(file_id, net) ==
    IF net = "ok"
    THEN { [content |-> B64Encode(<<77>>), filename |-> <<file_id, "_", "file", ".", "glb">>,
            mime_fbx |-> FALSE, size |-> {1}, telegram_id |-> ""] }
    ELSE {}

\* telegram_utils.download_telegram_file(file_id, bot_token, emergency_flag),
\* telegram_utils.py:92-159: what it returns and how many requests it made
telegram_utils_download_telegram_file(file_id, bot_token, emergency_flag, net) ==
    IF emergency_flag THEN [ret |-> {}, requests |-> 0]
    ELSE IF net = "ok"
         THEN [ret |-> { [filename |-> <<file_id, "_", "file", ".", "glb">>,
                          content |-> B64Encode(<<77>>), size |-> 1] },
               requests |-> 2]
    ELSE [ret |-> {}, requests |-> 1]

\* file_name.lower().endswith(('.glb', '.gltf', '.fbx', '.obj')) or
\* 'model' in mime_type.lower(), app.py:575
IsModelFile(ev) ==
    \/ \E w \in {"glb", "gltf", "fbx", "obj"} : EndsWithLower(ev.file_name, w)
    \/ ev.mime_model

\* the reply to a text, app.py:681-694
TextReply(text) ==
    IF text = "/start" THEN "Welcome to Axiscore 3D Model Viewer!"
    ELSE IF text = "/help" THEN "Axiscore 3D Model Viewer Help"
    ELSE "Send me a 3D model file to view it in Axiscore. You said: " \o text

Call(fn, args) == [fn |-> fn, args |-> args]
Json(code, status, msg, message) ==
    [code |-> code, status |-> status, msg |-> msg, message |-> message]
NoResponse == Json(0, "", "", "")
StatusOk == Json(200, "ok", "", "")

\* a worker with no request, and no request answered yet
Idle == [pc |-> "idle", event |-> NoEvent, file_data |-> {}, calls |-> <<>>, resp |-> NoResponse]

\* the request is answered
Done(hd, calls, resp) ==
    [hd EXCEPT !.pc = "done", !.calls = hd.calls \o calls, !.resp = resp, !.file_data = {}]

\* lines 586-587: the download, after which the handler goes on to store
Download(hd) ==
    [hd EXCEPT !.pc = "downloaded",
               !.calls = Append(@, Call("download_telegram_file", <<hd.event.file_id>>)),
               !.file_data = download_telegram_file(hd.event.file_id, hd.event.net)]

\* lines 568-677: a document
OnDocument(hd, db_ok) ==
    IF ~IsModelFile(hd.event)
    THEN Done(hd, <<Call("send_message",
                         <<"Please send a 3D model file (.glb, .gltf, or .fbx).">>)>>,
              StatusOk)
    ELSE IF ~db_ok
    THEN Done(hd, <<Call("send_message",
                         <<"Sorry, our database is currently unavailable. Please try again later.">>)>>,
              Json(500, "error", "Database connection unavailable", ""))
    ELSE Download(hd)

\* lines 557-698 up to the download: where the handler of an update stands
\* once the file, if it asks for one, has been fetched
Arrive(ev, db_ok) ==
    IF ~ev.chat
    THEN Done([Idle EXCEPT !.event = ev], <<>>, Json(400, "error", "No chat_id found", ""))
    ELSE IF ev.kind = "document" THEN OnDocument([Idle EXCEPT !.event = ev], db_ok)
    ELSE Done([Idle EXCEPT !.event = ev],
              <<Call("send_message", <<TextReply(ev.text)>>)>>, StatusOk)

\* lines 588-675: the rest of the handler of a model file; saved is what
\* save_model_to_storage returned, bot_info_ok whether getMe answered
Finish(hd, saved, bot_info_ok) ==
    IF hd.file_data = {}
    THEN Done(hd, <<Call("send_message",
                         <<"Failed to download your file from Telegram. Please try again.">>)>>,
              StatusOk)
    ELSE IF saved = {}
    THEN Done(hd, <<Call("save_model_to_storage", <<>>),
                    Call("send_message", <<"Failed to store your 3D model. Database error.">>)>>,
              StatusOk)
    ELSE IF ~bot_info_ok
    THEN Done(hd, <<Call("save_model_to_storage", <<>>), Call("requests.get", <<"getMe">>),
                    Call("send_message",
                         <<"Failed to process your 3D model. Please try again.">>)>>,
              StatusOk)
    ELSE Done(hd, <<Call("save_model_to_storage", <<>>), Call("requests.get", <<"getMe">>),
                    Call("requests.post", <<"3D model received">>)>>,
              StatusOk)

Workers == {1, 2}
InFlight == { h \in Workers : handlers[h].pc = "downloaded" }

\* an update is posted and a free worker takes it: up to the answer, or up
\* to the download when the update carries a model file
WebhookReceive ==
    /\ \E h \in Workers \ InFlight, ev \in Events, db_ok \in BOOLEAN :
        LET hd == Arrive(ev, db_ok)
        IN /\ hd.pc = "downloaded" => next_uuid + Cardinality(InFlight) <= MaxModels
           /\ handlers' = [handlers EXCEPT ![h] = IF hd.pc = "downloaded" THEN hd ELSE Idle]
           /\ answered' = IF hd.pc = "downloaded" THEN answered ELSE hd
    /\ UNCHANGED <<avars, cvars, xvars, svars, IGNORE_ALL_ARCHIVES, PROCESSING_FILES,
                   failed_archives>>

\* what save_model_to_storage does for a worker that has the download
Saved(fd, fault, model_id) ==
    IF fd = {} THEN [db |-> Store, ret |-> {}]
    ELSE SaveRun(Store, CHOOSE d \in fd : TRUE, fault # "db_down", fault, model_id)

\* a worker that has the download goes on: stores the model and answers
WebhookStore ==
    /\ \E h \in InFlight, fault \in {"none", "db_down"}, bot_info_ok \in BOOLEAN :
        LET r == Saved(handlers[h].file_data, fault, Uuid(next_uuid))
        IN /\ answered' = Finish(handlers[h], r.ret, bot_info_ok)
           /\ handlers' = [handlers EXCEPT ![h] = Idle]
           /\ models' = r.db.models
           /\ large_model_content' = r.db.large
           /\ schema' = r.db.schema
           /\ next_uuid' = IF r.db = Store THEN next_uuid ELSE next_uuid + 1
           /\ returned' = returned \cup
                 { [path |-> p, model_id |-> Uuid(next_uuid),
                    content |-> B64Encode(<<77>>)] : p \in r.ret }
    /\ UNCHANGED <<avars, cvars, xvars, model_content, last, IGNORE_ALL_ARCHIVES,
                   PROCESSING_FILES, failed_archives>>

\* app.IGNORE_ALL_ARCHIVES = True, tests/test_emergency_commands.py:100, 131
TestSetsFlag ==
    /\ ~IGNORE_ALL_ARCHIVES
    /\ IGNORE_ALL_ARCHIVES' = TRUE
    /\ UNCHANGED <<avars, cvars, xvars, svars, PROCESSING_FILES, failed_archives, handlers, answered>>

\* app.PROCESSING_FILES.add(file_id), tests/test_archive_processing.py:152
\* and tests/test_emergency_commands.py:37
TestAddsProcessingFile ==
    /\ \E f \in FileIds \ PROCESSING_FILES : PROCESSING_FILES' = PROCESSING_FILES \cup {f}
    /\ UNCHANGED <<avars, cvars, xvars, svars, IGNORE_ALL_ARCHIVES, failed_archives, handlers, answered>>

(***************************************************************************)
(* POST /telegram_auth, app.py:515-545, and DatabaseManager.create_user    *)
(***************************************************************************)
\* TELEGRAM_BOT_TOKEN.split(':')[1], app.py:513
TELEGRAM_BOT_SECRET == "secret"

\* hashlib.sha256(x).digest() and hmac.new(key, msg, sha256).hexdigest():
\* different inputs give different digests
Sha256(x) == <<"sha256", x>>
HmacSha256(key, msg) == [key |-> key, msg |-> msg]

\* the keys of the login data, in the order sorted() puts them; a login
\* record holds for each key the set of its values, empty when it is absent
AuthKeys == <<"hash", "id", "username">>
Present(data) == SelectSeq(AuthKeys, LAMBDA k : data[k] # {})

\* "\n".join(f"{k}={v}" for k, v in sorted(data.items())), app.py:517
data_check_string_with_hash(data) ==
    [i \in 1..Len(Present(data)) |->
        <<Present(data)[i], "=", CHOOSE v \in data[Present(data)[i]] : TRUE>>]

data_check_string(data) ==
    LET keys == Present([data EXCEPT !.hash = {}])
    IN [i \in 1..Len(keys) |-> <<keys[i], "=", CHOOSE v \in data[keys[i]] : TRUE>>]

\* check_telegram_auth(data), app.py:515-520, for data that has a hash
check_telegram_auth(data) ==
    {HmacSha256(Sha256(TELEGRAM_BOT_SECRET), data_check_string(data))} = data.hash

\* what Telegram or anyone else can send: any of the fields, with no hash,
\* the hash Telegram makes for some fields, or one made with another secret
Unsigned ==
    [hash : { {} }, id : { {}, {"1"}, {"2"} }, username : { {}, {"bob"} }]
Hashes ==
    { HmacSha256(Sha256(TELEGRAM_BOT_SECRET), data_check_string(u)) : u \in Unsigned }
        \cup { HmacSha256(Sha256("guess"), data_check_string(u)) :
                  u \in { [hash |-> {}, id |-> {"1"}, username |-> {}] } }
AuthRequests ==
    { [u EXCEPT !.hash = h] : u \in Unsigned, h \in { {} } \cup { {x} : x \in Hashes } }

\* INSERT INTO users (telegram_id, username, password): telegram_id is UNIQUE
InsertUser(rows, telegram_id, username, fault) ==
    IF fault \/ \E r \in rows : r.telegram_id = telegram_id
    THEN [rows |-> rows, ok |-> FALSE]
    ELSE [rows |-> rows \cup { [telegram_id |-> telegram_id, username |-> username] },
          ok |-> TRUE]

AuthResponse(code, token) == [code |-> code, token |-> token]

\* telegram_auth(), app.py:522-545: the users table afterwards and the answer
TelegramAuthRun(rows, data, db_ok, fault) ==
    IF data.hash = {} THEN [rows |-> rows, resp |-> AuthResponse(500, {})]
    ELSE IF ~check_telegram_auth(data) THEN [rows |-> rows, resp |-> AuthResponse(401, {})]
    ELSE IF data.id = {} THEN [rows |-> rows, resp |-> AuthResponse(500, {})]
    ELSE [rows |-> IF db_ok
                   THEN InsertUser(rows, CHOOSE v \in data.id : TRUE,
                                   IF data.username = {} THEN ""
                                   ELSE CHOOSE v \in data.username : TRUE, fault).rows
                   ELSE rows,
          resp |-> AuthResponse(200, data.id)]

\* DatabaseManager.create_user(telegram_id, username), db_utils.py:391-413:
\* execute returns None where the connection or the INSERT fails, commit
\* does nothing without a connection and raises where the server refuses
DbmCreateUserRun(rows, telegram_id, username, conn_ok, fault, commit_ok) ==
    LET ins == IF conn_ok THEN InsertUser(rows, telegram_id, username, fault)
               ELSE [rows |-> rows, ok |-> FALSE]
    IN IF conn_ok /\ ~commit_ok THEN [rows |-> rows, ret |-> FALSE]
       ELSE [rows |-> ins.rows, ret |-> TRUE]

\* a caller runs db_manager.create_user(telegram_id, username)
DbmCreateUser ==
    /\ \E telegram_id \in {"1", "2"}, username \in {"", "bob"},
          conn_ok \in BOOLEAN, fault \in BOOLEAN, commit_ok \in BOOLEAN :
        LET r == DbmCreateUserRun(users, telegram_id, username, conn_ok, fault, commit_ok)
        IN /\ users' = r.rows
           /\ ulast' = [op |-> "create_user", telegram_id |-> telegram_id,
                        username |-> username, before |-> users, ret |-> r.ret]
    /\ UNCHANGED <<avars, cvars, svars, wvars, tvars>>

\* POST /telegram_auth
TelegramAuth ==
    /\ \E data \in AuthRequests, db_ok \in BOOLEAN, fault \in BOOLEAN :
        LET r == TelegramAuthRun(users, data, db_ok, fault)
        IN /\ users' = r.rows
           /\ ulast' = [op |-> "auth", data |-> data, before |-> users, resp |-> r.resp]
    /\ UNCHANGED <<avars, cvars, svars, wvars, tvars>>

(***************************************************************************)
(* The other endpoints that touch the models table: POST /model-webhook,   *)
(* GET /models and POST /models                                            *)
(***************************************************************************)
\* the json of a model-webhook call: chat_id and file_data are {} when absent,
\* status is "" when absent
WebhookFile(content) ==
    [content |-> content, filename |-> <<"a", ".", "glb">>, mime_fbx |-> FALSE,
     size |-> {}, telegram_id |-> ""]
ModelWebhookRequests ==
    [chat_id : { {} }, status : {"completed"}, file_data : { {} }]
        \cup [chat_id : { {"42"} }, status : {"", "failed", "queued"}, file_data : { {} }]
        \cup [chat_id : { {"42"} }, status : {"completed"},
              file_data : { {}, {WebhookFile(<<>>)}, {WebhookFile(B64Encode(<<77>>))} }]

\* model_webhook, app.py:1756-1866: the committed store afterwards and the
\* status code.  The users table has no status column (app.py:481-488), so
\* each UPDATE users raises: after a failed save and for status 'failed'
\* that is the 500 of the outer handler, after a successful save it is
\* caught at line 1818.  sent is whether send_message got through.
ModelWebhookSave(db, fd, chat_id, fault, model_id, sent) ==
    LET r == SaveRun(db, [fd EXCEPT !.telegram_id = chat_id], fault # "db_down", fault,
                     model_id)
    IN IF r.ret = {} THEN [db |-> r.db, code |-> 500, ret |-> {}]
       ELSE [db |-> r.db, code |-> IF sent THEN 200 ELSE 500, ret |-> r.ret]
ModelWebhookRun(db, rq, fault, model_id, sent) ==
    IF rq.chat_id = {} \/ rq.status = "" THEN [db |-> db, code |-> 400, ret |-> {}]
    ELSE IF rq.status = "completed"
    THEN IF rq.file_data = {} \/ \E fd \in rq.file_data : fd.content = <<>>
         THEN [db |-> db, code |-> 400, ret |-> {}]
         ELSE ModelWebhookSave(db, CHOOSE fd \in rq.file_data : TRUE,
                               CHOOSE c \in rq.chat_id : TRUE, fault, model_id, sent)
    ELSE IF rq.status = "failed" THEN [db |-> db, code |-> 500, ret |-> {}]
    ELSE [db |-> db, code |-> 400, ret |-> {}]

\* POST /model-webhook
ModelWebhook ==
    /\ next_uuid <= MaxModels
    /\ \E rq \in ModelWebhookRequests, fault \in {"none", "db_down"}, sent \in BOOLEAN :
        LET r == ModelWebhookRun(Store, rq, fault, Uuid(next_uuid), sent)
        IN /\ models' = r.db.models
           /\ large_model_content' = r.db.large
           /\ schema' = r.db.schema
           /\ next_uuid' = IF r.db = Store THEN next_uuid ELSE next_uuid + 1
           /\ last' = [op |-> "model_webhook", status |-> rq.status, code |-> r.code]
           /\ returned' = returned \cup
                 { [path |-> p, model_id |-> Uuid(next_uuid),
                    content |-> B64Encode(<<77>>)] : p \in r.ret }
    /\ UNCHANGED <<avars, cvars, wvars, xvars, model_content>>

\* the identity the JWT carries
Identities == {"42"}

\* get_models under db_transaction, app.py:735-758 and 408-448: the status
\* code and the number of models listed; the SELECT names created_at
GetModelsRun(db, telegram_id, db_ok) ==
    IF ~db_ok THEN [code |-> 503, count |-> 0]
    ELSE IF "created_at" \notin db.schema.cols THEN [code |-> 500, count |-> 0]
    ELSE [code |-> 200,
          count |-> Cardinality({ i \in 1..Len(db.models) :
                                     db.models[i].telegram_id = telegram_id })]

\* GET /models
GetModels ==
    /\ \E telegram_id \in Identities, db_ok \in BOOLEAN :
        last' = [op |-> "get_models", telegram_id |-> telegram_id,
                 resp |-> GetModelsRun(Store, telegram_id, db_ok)]
    /\ UNCHANGED <<avars, cvars, wvars, xvars, models, large_model_content, model_content,
                   schema, next_uuid, returned>>

\* what POST /models is sent: model_url and model_name, {} when absent
AddedUrl == <<"https://example.com", "/", "x", ".", "glb">>
AddModelRequests ==
    [model_url : { {}, {AddedUrl} }, model_name : { {}, {<<"chair">>} }]

\* os.path.basename(urllib.parse.urlparse(model_url).path), app.py:773
UrlBasename(url) ==
    LET slashes == { i \in 1..Len(url) : url[i] = "/" }
    IN IF slashes = {} THEN <<>>
       ELSE SubSeq(url, (CHOOSE i \in slashes : \A j \in slashes : j <= i) + 1, Len(url))

\* an insert that pushes the oldest row out
AddModelInsert_Replacing(db, telegram_id, rq, fault) ==
    [db |-> [db EXCEPT !.models = IF @ = <<>> THEN <<>> ELSE Tail(@)], code |-> 201]

\* add_model under db_transaction, app.py:760-789 and 408-448
AddModelInsert(db, telegram_id, rq, fault) ==
    LET url == CHOOSE u \in rq.model_url : TRUE
        row == [telegram_id |-> telegram_id,
                model_name |-> IF rq.model_name = {} THEN UrlBasename(url)
                               ELSE CHOOSE n \in rq.model_name : TRUE,
                model_url |-> url, content |-> {}, content_size |-> {}]
        ins == InsertModels(BeginTxn(db), {}, row, fault)
    IN IF ins.err = "ok" THEN [db |-> Committed(ins.t), code |-> 201]
       ELSE [db |-> db, code |-> 500]
AddModelRun(db, telegram_id, rq, db_ok, fault) ==
    IF ~db_ok THEN [db |-> db, code |-> 503]
    ELSE IF rq.model_url = {} THEN [db |-> db, code |-> 400]
    ELSE AddModelInsert(db, telegram_id, rq, fault)

\* rows POST /models adds in one behaviour
MaxAdded == 1

\* POST /models
AddModel ==
    /\ Cardinality({ i \in 1..Len(models) : models[i].model_url = AddedUrl }) < MaxAdded
    /\ \E telegram_id \in Identities, rq \in AddModelRequests, db_ok \in BOOLEAN,
          fault \in BOOLEAN :
        LET r == AddModelRun(Store, telegram_id, rq, db_ok, fault)
        IN /\ models' = r.db.models
           /\ last' = [op |-> "add_model", telegram_id |-> telegram_id, code |-> r.code]
    /\ UNCHANGED <<avars, cvars, wvars, xvars, large_model_content, model_content, schema,
                   next_uuid, returned>>

(***************************************************************************)
(* The transaction decorators: app.db_transaction (app.py:408-448),        *)
(* error_utils.db_transaction (error_utils.py:41-95) and                   *)
(* db_utils.create_transaction_decorator (db_utils.py:474-528)             *)
(***************************************************************************)
\* connection objects made in one behaviour
MaxConnections == 3
ConnIds == 1..MaxConnections

\* a connection object is not made yet ("unused"), works ("ok"), has lost
\* its server while closed is still 0 ("broken"), or is closed ("closed")
Unused(cs) == { i \in ConnIds : cs[i] = "unused" }

\* psycopg2.connect(...): the next connection object
Connect(cs) == CHOOSE i \in Unused(cs) : \A j \in Unused(cs) : i <= j

\* ensure_db_connection, app.py:1996-2032, and
\* DatabaseManager.ensure_connection, db_utils.py:115-154, on the holder's
\* connection p: the connection afterwards and the return value
Reconnect(cs, reconnect_ok) ==
    IF reconnect_ok
    THEN [p |-> Connect(cs), conns |-> [cs EXCEPT ![Connect(cs)] = "ok"], ret |-> TRUE]
    ELSE [p |-> 0, conns |-> cs, ret |-> FALSE]
EnsureConnection(p, cs, reconnect_ok) ==
    IF p = 0 THEN Reconnect(cs, reconnect_ok)
    ELSE IF cs[p] = "closed" THEN Reconnect(cs, reconnect_ok)
    ELSE IF cs[p] = "ok" THEN [p |-> p, conns |-> cs, ret |-> TRUE]
    ELSE Reconnect([cs EXCEPT ![p] = "closed"], reconnect_ok)

\* what the wrapped function does: returns, raises a psycopg2.Error, raises
\* another exception, or raises because the server dropped the connection
\* it was using, which psycopg2 then marks closed
Funcs == {"returns", "raises_db", "raises", "drops"}

\* q.rollback() or q.commit(): AttributeError on None, InterfaceError on a
\* connection that is closed or broken
ConnCall(q, cs) ==
    IF q = 0 THEN "AttributeError" ELSE IF cs[q] = "ok" THEN "ok" ELSE "InterfaceError"
Issued(call, q, cs) == [call |-> call, on |-> q, raised |-> ConnCall(q, cs) # "ok"]

Outcome(cs, trace, code, propagated, committed) ==
    [conns |-> cs, trace |-> trace, code |-> code, propagated |-> propagated,
     committed |-> committed]

\* the except branches: rollback on the wrapper's connection, inside
\* try/except in app.py and error_utils.py (guarded), bare in db_utils.py
Handler(on, cs, guarded, trace) ==
    IF ConnCall(on, cs) = "ok" \/ guarded
    THEN Outcome(cs, Append(trace, Issued("rollback", on, cs)), 500, FALSE, FALSE)
    ELSE Outcome(cs, Append(trace, Issued("rollback", on, cs)), 0, TRUE, FALSE)

\* func(*args, **kwargs) and conn.commit(): the function works on the
\* connection in use (active), the wrapper commits on its own (on)
RunFunc(on, active, guarded, cs, func, commit_ok, trace) ==
    IF func = "returns"
    THEN IF commit_ok /\ ConnCall(on, cs) = "ok"
         THEN Outcome(cs, trace \o <<[call |-> "func", on |-> active, raised |-> FALSE],
                                     Issued("commit", on, cs)>>,
                      200, FALSE, on = active)
         ELSE Handler(on, cs, guarded,
                      trace \o <<[call |-> "func", on |-> active, raised |-> FALSE],
                                 [call |-> "commit", on |-> on, raised |-> TRUE]>>)
    ELSE Handler(on, IF func = "drops" THEN [cs EXCEPT ![active] = "closed"] ELSE cs,
                 guarded,
                 Append(trace, [call |-> "func", on |-> active, raised |-> TRUE]))

\* the body of wrapper once the connection is ensured: rollback, function,
\* commit
Wrapped(on, active, guarded, cs, func, commit_ok) ==
    IF ConnCall(on, cs) = "ok"
    THEN RunFunc(on, active, guarded, cs, func, commit_ok, <<Issued("rollback", on, cs)>>)
    ELSE Handler(on, cs, guarded, <<Issued("rollback", on, cs)>>)

\* wrapper(*args, **kwargs): e is what ensuring the connection gave, on the
\* connection the wrapper's rollback and commit go to
Wrapper(e, on, guarded, func, commit_ok) ==
    IF ~e.ret THEN Outcome(e.conns, <<>>, 503, FALSE, FALSE)
    ELSE Wrapped(on, e.p, guarded, e.conns, func, commit_ok)

Called(decorator, func, commit_ok, e, r) ==
    [decorator |-> decorator, func |-> func, commit_ok |-> commit_ok, ensured |-> e.ret,
     active |-> e.p, trace |-> r.trace, code |-> r.code, propagated |-> r.propagated,
     committed |-> r.committed]

\* no connection made, nothing decorated by error_utils yet, nothing called
TransactionsIdle ==
    /\ conns = [i \in ConnIds |-> "unused"]
    /\ conn = 0
    /\ captured = {}
    /\ manager_conn = 0
    /\ tlast = [decorator |-> "none"]

\* a connection can be made as long as the bound leaves an object for it
CanConnect(reconnect_ok) == reconnect_ok => Unused(conns) # {}

\* a request to a route under app.db_transaction
AppTransaction ==
    /\ \E func \in Funcs, reconnect_ok \in BOOLEAN, commit_ok \in BOOLEAN :
        LET e == EnsureConnection(conn, conns, reconnect_ok)
            r == Wrapper(e, e.p, TRUE, func, commit_ok)
        IN /\ CanConnect(reconnect_ok)
           /\ conn' = e.p
           /\ conns' = r.conns
           /\ tlast' = Called("app", func, commit_ok, e, r)
    /\ UNCHANGED <<avars, cvars, svars, wvars, users, ulast, captured, manager_conn>>

\* error_utils.db_transaction(conn, cursor, ensure_db_connection) is called
\* with the module's connection as it is then
Decorate ==
    /\ captured = {}
    /\ captured' = {conn}
    /\ UNCHANGED <<avars, cvars, svars, wvars, users, ulast, conns, conn, manager_conn,
                   tlast>>

\* a request to a route under the decorator error_utils.db_transaction made
ErrorUtilsTransaction ==
    /\ captured # {}
    /\ \E func \in Funcs, reconnect_ok \in BOOLEAN, commit_ok \in BOOLEAN :
        LET e == EnsureConnection(conn, conns, reconnect_ok)
            r == Wrapper(e, CHOOSE q \in captured : TRUE, TRUE, func, commit_ok)
        IN /\ CanConnect(reconnect_ok)
           /\ conn' = e.p
           /\ conns' = r.conns
           /\ tlast' = Called("error_utils", func, commit_ok, e, r)
    /\ UNCHANGED <<avars, cvars, svars, wvars, users, ulast, captured, manager_conn>>

\* a request to a route under create_transaction_decorator(db_manager)
ManagerTransaction ==
    /\ \E func \in Funcs, reconnect_ok \in BOOLEAN, commit_ok \in BOOLEAN :
        LET e == EnsureConnection(manager_conn, conns, reconnect_ok)
            r == Wrapper(e, e.p, FALSE, func, commit_ok)
        IN /\ CanConnect(reconnect_ok)
           /\ manager_conn' = e.p
           /\ conns' = r.conns
           /\ tlast' = Called("manager", func, commit_ok, e, r)
    /\ UNCHANGED <<avars, cvars, svars, wvars, users, ulast, captured, conn>>

\* the server or the network ends a connection between two requests
ConnectionFails ==
    /\ \E i \in ConnIds, s \in {"broken", "closed"} :
        /\ conns[i] = "ok"
        /\ conns' = [conns EXCEPT ![i] = s]
    /\ UNCHANGED <<avars, cvars, svars, wvars, users, ulast, conn, captured, manager_conn,
                   tlast>>

(***************************************************************************)
(* Specifications                                                          *)
(***************************************************************************)
NoResult == [success |-> FALSE, extract_path |-> {}, error |-> NoError, files |-> <<>>]

ArchiveIdle ==
    /\ archive = [path |-> <<"m">>, nfiles |-> 1]
    /\ tmpdirs = <<>>
    /\ result = NoResult
    /\ attempts = <<>>
    /\ phase = "idle"

ClassifierIdle ==
    /\ file_list = <<>>
    /\ models_found = <<>>
    /\ composed = [op |-> "none"]

FullSchema == [large_table |-> TRUE, content_table |-> TRUE, cols |-> ModelColumns]

\* the schemas the tables can have when the process starts: as app.py creates
\* them (content_size is added by the first save), already complete, created
\* by an older revision, or never created because the database was down
Schemas ==
    { [FullSchema EXCEPT !.cols = {"content", "created_at"}],
      FullSchema,
      [FullSchema EXCEPT !.cols = {"content", "content_size"}],
      [FullSchema EXCEPT !.cols = {"content_size", "created_at"}],
      [large_table |-> FALSE, content_table |-> FALSE, cols |-> {"content", "created_at"}] }

StoreEmpty ==
    /\ models = <<>>
    /\ large_model_content = <<>>
    /\ model_content = <<>>
    /\ next_uuid = 1
    /\ last = [op |-> "none"]
    /\ returned = {}

StorageIdle == StoreEmpty /\ schema = FullSchema

\* no user yet and no call about one
UsersIdle ==
    /\ users = {}
    /\ ulast = [op |-> "none"]
    /\ TransactionsIdle

\* the module attributes as setUp of the tests leaves them, no request being
\* served, no failure recorded
WebhookIdle ==
    /\ IGNORE_ALL_ARCHIVES = FALSE
    /\ PROCESSING_FILES = {}
    /\ failed_archives = {}
    /\ handlers = [h \in Workers |-> Idle]
    /\ answered = Idle
    /\ UsersIdle

\* the extraction cascade under every tool configuration
InitArchive ==
    /\ USE_COMMAND_LINE_TOOLS \in BOOLEAN
    /\ PYTHON_ARCHIVE_AVAILABLE \in BOOLEAN
    /\ tools = WorkingTools
    /\ ArchiveIdle
    /\ ClassifierIdle
    /\ StorageIdle
    /\ WebhookIdle

NextArchive == ExtractArchive \/ CleanupExtraction

SpecArchive == InitArchive /\ [][NextArchive]_vars

\* the classifier on its own
InitClassifier ==
    /\ USE_COMMAND_LINE_TOOLS = TRUE
    /\ PYTHON_ARCHIVE_AVAILABLE = TRUE
    /\ tools = WorkingTools
    /\ ArchiveIdle
    /\ ClassifierIdle
    /\ StorageIdle
    /\ WebhookIdle

NextClassifier == Find3dModelFiles

SpecClassifier == InitClassifier /\ [][NextClassifier]_vars

\* the storage resolver of app.py: saves and reads in any order
InitStorage ==
    /\ USE_COMMAND_LINE_TOOLS = TRUE
    /\ PYTHON_ARCHIVE_AVAILABLE = TRUE
    /\ tools = WorkingTools
    /\ ArchiveIdle
    /\ ClassifierIdle
    /\ StoreEmpty
    /\ schema \in Schemas
    /\ WebhookIdle

NextStorage == SaveModelToStorage \/ ServeModel

SpecStorage == InitStorage /\ [][NextStorage]_vars

\* DatabaseManager.save_model on its own store
NextDbm == DbmSaveModel

\* the webhook: updates arrive at two workers while the tests' assignments
\* to the module attributes can happen at any time; the failed_archives
\* table holds a row for file id f1 from an earlier run
InitWebhook ==
    /\ USE_COMMAND_LINE_TOOLS = TRUE
    /\ PYTHON_ARCHIVE_AVAILABLE = TRUE
    /\ tools = WorkingTools
    /\ ArchiveIdle
    /\ ClassifierIdle
    /\ StorageIdle
    /\ IGNORE_ALL_ARCHIVES = FALSE
    /\ PROCESSING_FILES = {}
    /\ failed_archives = {"f1"}
    /\ handlers = [h \in Workers |-> Idle]
    /\ answered = Idle
    /\ UsersIdle

NextWebhook == WebhookReceive \/ WebhookStore \/ TestSetsFlag \/ TestAddsProcessingFile

SpecWebhook == InitWebhook /\ [][NextWebhook]_vars

\* a handler, once started, runs to its return statement
SpecWebhookFair == SpecWebhook /\ WF_vars(WebhookStore)

SpecDbm == InitStorage /\ [][NextDbm]_vars

\* every operation that reads or writes stored models; a webhook upload
\* stores through save_model_to_storage (app.py:591)
NextLifecycle ==
    \/ SaveModelToStorage
    \/ ModelWebhook
    \/ GetModels
    \/ AddModel
    \/ ServeModel

SpecLifecycle == InitStorage /\ [][NextLifecycle]_vars

\* extraction followed by classification of its listing, as test_archive.py
\* runs them
NextPipeline == ExtractArchive \/ FindInResult \/ CleanupExtraction

SpecPipeline == InitArchive /\ [][NextPipeline]_vars

\* requests to decorated routes while connections come and go
InitTransactions ==
    /\ USE_COMMAND_LINE_TOOLS = TRUE
    /\ PYTHON_ARCHIVE_AVAILABLE = TRUE
    /\ tools = WorkingTools
    /\ ArchiveIdle
    /\ ClassifierIdle
    /\ StorageIdle
    /\ WebhookIdle

NextTransactions ==
    \/ AppTransaction
    \/ Decorate
    \/ ErrorUtilsTransaction
    \/ ManagerTransaction
    \/ ConnectionFails

SpecTransactions == InitTransactions /\ [][NextTransactions]_vars

\* logins and user creation
NextUsers == TelegramAuth \/ DbmCreateUser

SpecUsers == InitStorage /\ [][NextUsers]_vars

(***************************************************************************)
(* Properties of the extraction cascade                                    *)
(***************************************************************************)
FileExt == Lower(PathSuffix(archive.path))
Supported == FileExt \in { <<".", "rar">>, <<".", "zip">>, <<".", "7z">> }
Extracted == phase = "extracted"

Range(seq) == { seq[i] : i \in 1..Len(seq) }
IsPrefix(a, b) == Len(a) <= Len(b) /\ a = SubSeq(b, 1, Len(a))

\* a backend that, run on the archive, returns normally and leaves its files
Extracts(b) == tools[ToolOf(b)].ok /\ tools[ToolOf(b)].writes

\* the command-line tools of a format, in the order the code names them
CliTools(ext) ==
    CASE ext = <<".", "rar">> -> <<"7z", "unrar-free", "unrar">>
      [] ext = <<".", "zip">> -> <<"unzip", "7z">>
      [] ext = <<".", "7z">> -> <<"7z">>
      [] OTHER -> <<>>

FormatLib(ext) ==
    CASE ext = <<".", "rar">> -> <<"rarfile">>
      [] ext = <<".", "zip">> -> <<"zipfile">>
      [] ext = <<".", "7z">> -> <<"py7zr">>
      [] OTHER -> <<>>

\* the backends a configuration has for a format
ConfiguredBackends(ext, cli, py) ==
    (IF py THEN Range(FormatLib(ext)) ELSE {})
        \cup (IF cli THEN Range(CliTools(ext)) ELSE {})

FullListing == list_files_recursive(1..archive.nfiles)

\* C2: for a supported format, if some configured backend would extract a
\* non-empty set of files, extract_archive returns success=True and 'files'
\* is that listing, whatever the other backends do.
C2_ExtractionComplete ==
    (Extracted /\ Supported
       /\ \E b \in ConfiguredBackends(FileExt, USE_COMMAND_LINE_TOOLS,
                                       PYTHON_ARCHIVE_AVAILABLE) : Extracts(b))
    => (result.success /\ result.files = FullListing)

\* C3: whenever extract_archive returns success=True, 'files' is the
\* non-empty listing of the extraction directory.
C3_SuccessHasListing ==
    (Extracted /\ result.success)
    => /\ result.files # <<>>
       /\ \E d \in result.extract_path :
             /\ tmpdirs[d].exists
             /\ result.files = list_files_recursive(tmpdirs[d].files)

\* C4: if every attempted backend raised or left zero files, the result is
\* success=False and 'error' carries the error text of every backend tried.
C4_ErrorNamesEveryBackend ==
    (Extracted /\ attempts # <<>> /\ \A b \in Range(attempts) : ~Extracts(b))
    => /\ ~result.success
       /\ ~result.error.isNone
       /\ \A b \in Range(attempts) :
             ~tools[ToolOf(b)].ok => b \in result.error.includes

\* C5: the result is either success=True with a listing and a directory, or
\* success=False with a non-empty error; never success=False with error None.
C5_ResultShape ==
    Extracted =>
       \/ result.success /\ result.extract_path # {}
       \/ ~result.success /\ ~result.error.isNone /\ result.error.text # ""

\* the except handler ran and its rmtree failed: the result is a failure
\* whose error is an exception's text and whose path is still set
RemovalFailed ==
    /\ ~result.success /\ result.extract_path # {}
    /\ ~result.error.isNone
    /\ result.error.text # "Extraction appeared to succeed but no files were found"

\* C28: after extract_archive has returned success=False the directory it
\* made is gone and extract_path is None (unless removing it failed), also
\* when no file was found; after success=True the directory exists under
\* the path in extract_path until the caller runs cleanup_extraction.
C28_NoLeak ==
    /\ (Extracted /\ ~result.success /\ ~RemovalFailed)
       => /\ result.extract_path = {}
          /\ \A d \in 1..Len(tmpdirs) : ~tmpdirs[d].exists
    /\ (phase = "extracted" /\ result.success)
       => \E d \in result.extract_path : tmpdirs[d].exists

\* the files in the directory of the last extraction
ExtractedFiles ==
    IF result.extract_path = {} THEN <<>>
    ELSE list_files_recursive(tmpdirs[CHOOSE d \in result.extract_path : TRUE].files)

\* C29: find_3d_model_files given result['files'] of a successful extraction
\* does not raise and returns one entry, with filename and extension, for
\* each extracted file whose extension is in the allow-list.
C29_Composes ==
    composed.op = "find" =>
        /\ ~composed.raised
        /\ Len(composed.models) =
              Len(SelectSeq(ExtractedFiles, LAMBDA e : e.extension \in model_extensions))
        /\ \A i \in 1..Len(composed.models) :
              LET e == SelectSeq(ExtractedFiles,
                                 LAMBDA x : x.extension \in model_extensions)[i]
              IN /\ composed.models[i].filename = e.filename
                 /\ composed.models[i].extension = e.extension

\* the order the specification text gives: format library, universal
\* library, then (if enabled) the format's command-line tools, then the
\* generic command-line fallback
ClaimedOrder(ext, cli, py) ==
    (IF py THEN FormatLib(ext) \o <<"patoolib">> ELSE <<>>)
        \o (IF cli THEN CliTools(ext) \o <<"7z">> ELSE <<>>)

\* C6 as stated: for a supported format the backends run are an initial
\* part of library, universal library, command-line tools, generic fallback.
C6_ClaimedOrder ==
    (Extracted /\ Supported)
    => IsPrefix(attempts, ClaimedOrder(FileExt, USE_COMMAND_LINE_TOOLS,
                                       PYTHON_ARCHIVE_AVAILABLE))

\* the order the code follows: with command-line tools enabled the format's
\* tools and then the format library; without them the format library alone;
\* for any other extension the generic 7z and then patool
CodeOrder(ext, cli, py) ==
    IF ext \in { <<".", "rar">>, <<".", "zip">>, <<".", "7z">> }
    THEN (IF cli THEN CliTools(ext) ELSE <<>>) \o (IF py THEN FormatLib(ext) ELSE <<>>)
    ELSE IF cli THEN <<"7z">> \o (IF py THEN <<"patoolib">> ELSE <<>>)
    ELSE <<>>

\* C6 (amended): the backends run are an initial part of the code's fixed
\* order for the extension and configuration, every backend before the last
\* one run has raised, and the run stops short only at a backend that
\* returned normally.
C6_CodeOrder ==
    Extracted =>
       LET order == CodeOrder(FileExt, USE_COMMAND_LINE_TOOLS, PYTHON_ARCHIVE_AVAILABLE)
       IN /\ IsPrefix(attempts, order)
          /\ \A i \in 1..(Len(attempts) - 1) : ~tools[ToolOf(attempts[i])].ok
          /\ Len(attempts) < Len(order) =>
                (attempts # <<>> /\ tools[ToolOf(attempts[Len(attempts)])].ok)

\* C6 witness: a .rar archive, command-line tools enabled, all three tools
\* raised and the rarfile library was reached last.
C6_Witness ==
    /\ Extracted
    /\ attempts = <<"7z", "unrar-free", "unrar", "rarfile">>
    /\ result.success

(***************************************************************************)
(* Properties of the classifier                                            *)
(***************************************************************************)
ModelWords == {"glb", "gltf", "fbx", "obj"}

\* the final path component ends in "." and a model format word, in any
\* letter case, and has something before that dot
HasModelExtension(p) ==
    LET name == PathName(p)
        n == Len(name)
    IN /\ n >= 3
       /\ name[n - 1] = "."
       /\ LowerTok(name[n]) \in ModelWords

\* C7: find_3d_model_files returns exactly the entries whose extension is,
\* case-insensitively, .glb, .gltf, .fbx or .obj: none other, none missing,
\* each once, in input order.
C7_ClassifierExact ==
    /\ Len(models_found) = Len(SelectSeq(file_list, HasModelExtension))
    /\ \A i \in 1..Len(models_found) :
          /\ models_found[i].path = SelectSeq(file_list, HasModelExtension)[i]
          /\ LET name == PathName(models_found[i].path)
             IN models_found[i].extension = <<".", LowerTok(name[Len(name)])>>

\* C7 witness: an upper-case model file is kept, a text file and a file in a
\* directory named like a model are dropped.
C7_Witness ==
    /\ file_list = << <<"d", ".", "obj", "/", "a", ".", "txt">>, <<"a", ".", "Obj">> >>
    /\ Len(models_found) = 1
    /\ models_found[1].path = <<"a", ".", "Obj">>
    /\ models_found[1].extension = <<".", "obj">>

(***************************************************************************)
(* Properties of the storage resolver                                      *)
(***************************************************************************)
\* rows the store holds for an identifier
ModelRows(model_id) ==
    { i \in 1..Len(models) : model_id \in Range(models[i].model_url) }
LargeRows(model_id) ==
    { i \in 1..Len(large_model_content) : large_model_content[i].model_id = model_id }
ContentRows(model_id) ==
    { i \in 1..Len(model_content) : model_content[i].model_id = model_id }

\* C1: a read whose fragment is the identifier of a path an earlier save
\* returned gives back exactly the bytes whose base64 text that save stored,
\* whatever was saved or read in between (the database being reachable).
C1_RoundTrip ==
    \A r \in returned : \A b \in SampleBytes :
        (/\ last.op = "serve"
         /\ last.db_ok
         /\ last.model_id = <<r.model_id>>
         /\ r.content = B64Encode(b))
        => (last.resp.status = 200 /\ last.resp.body = b)

\* C1 witness: two models are stored and the first one saved is read back.
C1_Witness ==
    /\ last.op = "serve"
    /\ last.db_ok
    /\ last.model_id = <<Uuid(1)>>
    /\ Len(large_model_content) = 2
    /\ large_model_content[1].content # large_model_content[2].content
    /\ \E r \in returned :
          r.model_id = Uuid(1) /\ r.content = B64Encode(<<77, 97, 110, 255>>)
    /\ last.resp.status = 200
    /\ last.resp.body = <<77, 97, 110, 255>>

\* C8: after a successful save, a declared size of at most 1 MiB leaves the
\* content both inline in the models row and in the side table under the new
\* identifier; a larger one leaves it in the side table only, the models row
\* carrying no content.
C8_SizeRule ==
    (last.op = "save" /\ last.ret # {})
    => /\ ModelRows(last.model_id) # {}
       /\ \A i \in ModelRows(last.model_id) :
             models[i].content = IF ContentSize(last.fd) <= OneMiB
                                 THEN {last.fd.content} ELSE {}
       /\ \E i \in LargeRows(last.model_id) :
             large_model_content[i].content = last.fd.content

\* C9: save_model_to_storage is all-or-nothing: after a None return no row of
\* that call is committed in either table; after a path is returned both the
\* side-table row and the models row of the new identifier are committed.
C9_AllOrNothing ==
    last.op = "save"
    => IF last.ret = {}
       THEN ModelRows(last.model_id) = {} /\ LargeRows(last.model_id) = {}
       ELSE ModelRows(last.model_id) # {} /\ LargeRows(last.model_id) # {}

\* C10: DatabaseManager.save_model returns a path only if both the
\* model_content row and the models row were inserted and committed; if
\* either insert fails nothing of the call is committed and it returns None.
C10_DbmAllOrNothing ==
    last.op = "dbm_save"
    => IF last.ret = {}
       THEN ModelRows(last.model_id) = {} /\ ContentRows(last.model_id) = {}
       ELSE ModelRows(last.model_id) # {} /\ ContentRows(last.model_id) # {}

\* what base64.b64decode accepts: once the characters outside the alphabet
\* are dropped, whole quads, the last one possibly padded
Sextets(text) == Cardinality({ i \in 1..Len(text) : text[i] < Pad })
Pads(text) == Cardinality({ i \in 1..Len(text) : text[i] = Pad })
ValidBase64(text) ==
    \/ Sextets(text) % 4 = 0
    \/ Sextets(text) % 4 = 2 /\ Pads(text) >= 2
    \/ Sextets(text) % 4 = 3 /\ Pads(text) >= 1

\* the rows of large_model_content that hold content
RowsWithContent ==
    { i \in 1..Len(large_model_content) : large_model_content[i].content # <<>> }
Located(u) == { i \in RowsWithContent : large_model_content[i].model_id = u }

ExtensionOf(name) ==
    IF Len(name) >= 2 /\ name[Len(name) - 1] = "." THEN Lower(<<name[Len(name)]>>)[1]
    ELSE ""
TypeOfExtension(ext) ==
    CASE ext = "glb" -> "model/gltf-binary"
      [] ext = "gltf" -> "model/gltf+json"
      [] ext = "obj" -> "text/plain"
      [] OTHER -> "application/octet-stream"

\* C12: the Content-Type of a served model follows from the extension of the
\* file name in the request alone, whatever its case: .glb gives
\* model/gltf-binary, .gltf model/gltf+json, .obj text/plain, .fbx and all
\* others application/octet-stream; the name and content stored play no part.
C12_ContentTypeFromRequest ==
    (last.op = "serve" /\ last.resp.status = 200) =>
        last.resp.content_type = TypeOfExtension(ExtensionOf(last.filename))

\* a model stored as a.glb is served under a name ending in .Obj
C12_Witness ==
    /\ last.op = "serve" /\ last.resp.status = 200
    /\ last.filename = <<"a", ".", "Obj">>
    /\ last.resp.content_type = "text/plain"
    /\ \A i \in 1..Len(models) : models[i].model_name = <<"a", ".", "glb">>


\* what the endpoint answers from the side-table row i, and from a set of
\* rows: 404 when there is none
ServedFrom(i) ==
    IF ValidBase64(large_model_content[i].content)
    THEN /\ last.resp.status = 200
         /\ last.resp.body = B64Decode(large_model_content[i].content).bytes
    ELSE last.resp.status = 500
ServedFromOneOf(rows) ==
    IF rows = {} THEN last.resp.status = 404 ELSE \E i \in rows : ServedFrom(i)
IdentifiersIn(text) == { u \in Uuids : \E i \in 1..Len(text) : text[i] = u }

\* C23: a request whose fragment holds an identifier is answered from the
\* side-table row of that identifier or with 404, never from another row;
\* one without an identifier whose fragment lies in the locator of models
\* rows is answered from the side-table row of one of these rows' identifier
\* or with 404; only a request with neither is answered from any side-table
\* row that has content.
C23_ResolutionOrder ==
    (last.op = "serve" /\ last.db_ok /\ schema.large_table) =>
        LET hits == { i \in 1..Len(models) : Like(models[i].model_url, last.model_id) }
        IN IF IdentifiersIn(last.model_id) # {}
           THEN \E u \in IdentifiersIn(last.model_id) : ServedFromOneOf(Located(u))
           ELSE IF hits # {}
           THEN \E i \in hits :
                   \E u \in IdentifiersIn(models[i].model_url) : ServedFromOneOf(Located(u))
           ELSE ServedFromOneOf(RowsWithContent)

\* a request naming a piece of the first model's identifier is answered with
\* that model's bytes while the side table holds another model's as well
C23_Witness ==
    /\ last.op = "serve" /\ last.db_ok /\ last.resp.status = 200
    /\ last.model_id = <<UuidPart(1)>>
    /\ \E i \in Located(Uuid(1)) : ServedFrom(i)
    /\ \E i \in RowsWithContent :
          /\ large_model_content[i].model_id # Uuid(1)
          /\ ~ServedFrom(i)

\* the columns the first models INSERT of the last save named, and whether
\* the table lacked one of them (content_size is added by the save itself)
FirstInsertColumns ==
    IF last.op = "save" /\ ContentSize(last.fd) <= OneMiB THEN ModelColumns
    ELSE {"content_size", "created_at"}
ColumnError == ~(FirstInsertColumns \subseteq schema.cols \cup {"content_size"})

\* C24: a save whose models INSERT fails on a missing column, and that meets
\* no other failure, retries with the reduced column set and succeeds: the
\* path is returned, the models row is committed without the optional
\* metadata and the content is committed in the side table.
C24_ColumnRetry ==
    (/\ last.op \in {"save", "dbm_save"}
     /\ last.fault = "none"
     /\ last.fd.content # <<>> /\ Adaptable(last.fd.content)
     /\ IF last.op = "save" THEN schema.large_table ELSE schema.content_table
     /\ ColumnError)
    => /\ last.ret = {ModelPath(last.model_id, SaveFilename(last.fd))}
       /\ \E i \in ModelRows(last.model_id) : models[i].content_size = {}
       /\ IF last.op = "save" THEN LargeRows(last.model_id) # {}
          ELSE ContentRows(last.model_id) # {}

\* C25: stored models are append-only: whatever endpoint runs (a webhook
\* upload, a model-webhook call, listing, adding, a read), every committed
\* models row and side-table row stays where it was with the same locator and
\* content; rows are only added behind them.
C25_AppendOnly ==
    [][/\ IsPrefix(models, models')
       /\ IsPrefix(large_model_content, large_model_content')
       /\ IsPrefix(model_content, model_content')]_vars

\* a model stored by an upload is still there, with another row behind it,
\* after a read has been served
C25_Witness ==
    /\ last.op = "serve" /\ last.resp.status = 200
    /\ Len(models) >= 2
    /\ Len(large_model_content) >= 1
    /\ \E i \in 1..Len(models) : models[i].model_url = AddedUrl

(***************************************************************************)
(* The webhook's guards                                                    *)
(***************************************************************************)
\* steps of the webhook: a worker takes up the file of an update, an update
\* is answered on arrival, an update is answered at all
Starts(h) == handlers[h].pc = "idle" /\ handlers'[h].pc = "downloaded"
AnswersAtOnce == handlers' = handlers /\ answered' # answered
Answers == answered' # answered

Select(calls, fns) == SelectSeq(calls, LAMBDA c : c.fn \in fns)
Messages(calls) == Select(calls, {"send_message", "requests.post"})
Downloads(calls) == Select(calls, {"download_telegram_file"})
StorageCalls(calls) == Select(calls, {"save_model_to_storage", "db.save_model"})
IsArchive(ev) ==
    ev.kind = "document" /\ \E w \in {"zip", "rar", "7z"} : EndsWithLower(ev.file_name, w)

\* C13: when an update carries a file identifier that another worker is
\* still handling, it is not processed: no worker starts on a file while
\* another one is at work on the same identifier.
C13_InFlightGuard ==
    [][ \A h \in Workers : Starts(h) =>
           \A g \in InFlight : handlers[g].event.file_id # handlers'[h].event.file_id ]_vars

\* C14: every identifier in the in-flight set is removed from it again.
C14_LocksAreReleased ==
    \A f \in FileIds : (f \in PROCESSING_FILES) ~> (f \notin PROCESSING_FILES)

\* C15: while IGNORE_ALL_ARCHIVES is on, no worker starts on the file of an
\* update and every update with a document is answered with HTTP 200, status
\* 'stopped', after exactly one call, the 'Processing is currently disabled'
\* message; telegram_utils.download_telegram_file called with the flag
\* returns None without a request.
C15_EmergencyFlagBlocks ==
    [][ IGNORE_ALL_ARCHIVES =>
          /\ \A h \in Workers : ~Starts(h)
          /\ (AnswersAtOnce /\ answered'.event.chat /\ answered'.event.kind = "document") =>
                /\ answered'.resp.code = 200
                /\ answered'.resp.status = "stopped"
                /\ answered'.calls =
                      <<Call("send_message", <<"Processing is currently disabled">>)>>
          /\ \A f \in FileIds, n \in NetOutcomes :
                telegram_utils_download_telegram_file(f, TELEGRAM_BOT_TOKEN, TRUE, n)
                    = [ret |-> {}, requests |-> 0] ]_vars

\* C16: the text /911 leaves the emergency flag on and the in-flight set
\* empty, sends exactly one message and is answered with HTTP 200, status
\* 'ok' and message 'Emergency stop executed'.
C16_EmergencyStop ==
    [][ (AnswersAtOnce /\ answered'.event.chat /\ answered'.event.text = "/911") =>
          /\ IGNORE_ALL_ARCHIVES'
          /\ PROCESSING_FILES' = {}
          /\ Len(Messages(answered'.calls)) = 1
          /\ answered'.resp = Json(200, "ok", "", "Emergency stop executed") ]_vars

\* C17: the text /disable leaves the emergency flag on and /enable leaves it
\* off, each answered with HTTP 200 after exactly one message, the
\* confirmation; any other update that is answered leaves the flag alone.
C17_Toggle ==
    [][ (AnswersAtOnce /\ answered'.event.chat /\ answered'.event.kind = "text") =>
          /\ answered'.event.text = "/disable" =>
                /\ IGNORE_ALL_ARCHIVES'
                /\ answered'.resp.code = 200
                /\ Messages(answered'.calls) =
                      <<Call("send_message",
                             <<"Processing has been disabled (circuit breaker active).">>)>>
          /\ answered'.event.text = "/enable" =>
                /\ ~IGNORE_ALL_ARCHIVES'
                /\ answered'.resp.code = 200
                /\ Messages(answered'.calls) =
                      <<Call("send_message", <<"Processing has been re-enabled.">>)>>
          /\ answered'.event.text \notin {"/disable", "/enable", "/911"} =>
                IGNORE_ALL_ARCHIVES' = IGNORE_ALL_ARCHIVES ]_vars

\* C18: a failure record stays, and with the emergency flag off an update
\* with a document whose identifier has one is answered with HTTP 200, status
\* 'error' and msg 'Archive previously failed', no worker starting on its file.
C18_FailedStaysFailed ==
    [][ /\ failed_archives \subseteq failed_archives'
        /\ ~IGNORE_ALL_ARCHIVES =>
              /\ \A h \in Workers :
                    Starts(h) => handlers'[h].event.file_id \notin failed_archives
              /\ (AnswersAtOnce /\ answered'.event.chat /\ answered'.event.kind = "document"
                    /\ answered'.event.file_id \in failed_archives)
                   => answered'.resp = Json(200, "error", "Archive previously failed", "") ]_vars

\* C19: an update with an archive that Telegram does not deliver, arriving
\* with the emergency flag off and no failure recorded for it, is answered
\* with HTTP 200 after exactly one download call and an error message, with
\* no storage call, and its failure is then on record.
C19_DownloadFailure ==
    [][ (Answers /\ IsArchive(answered'.event) /\ answered'.event.chat
           /\ answered'.event.net # "ok"
           /\ ~IGNORE_ALL_ARCHIVES /\ answered'.event.file_id \notin failed_archives) =>
          /\ Len(Downloads(answered'.calls)) = 1
          /\ Messages(answered'.calls) # <<>>
          /\ answered'.event.file_id \in failed_archives'
          /\ StorageCalls(answered'.calls) = <<>>
          /\ answered'.resp.code = 200 ]_vars

\* C20: an update with an archive that Telegram delivers, arriving with the
\* emergency flag off and no failure recorded for it, is answered with HTTP
\* 200 after, in this order, exactly one download_telegram_file(file id, bot
\* token, False), one extract_archive and one find_3d_model_files call, then
\* a storage call and a message to the chat.
C20_ArchivePipeline ==
    [][ (Answers /\ IsArchive(answered'.event) /\ answered'.event.chat
           /\ answered'.event.net = "ok"
           /\ ~IGNORE_ALL_ARCHIVES /\ answered'.event.file_id \notin failed_archives) =>
          /\ Downloads(answered'.calls) =
                <<Call("download_telegram_file",
                       <<answered'.event.file_id, TELEGRAM_BOT_TOKEN, "False">>)>>
          /\ LET steps == Select(answered'.calls,
                                 {"download_telegram_file", "extract_archive",
                                  "find_3d_model_files"})
             IN /\ Len(steps) = 3
                /\ steps[1].fn = "download_telegram_file"
                /\ steps[2].fn = "extract_archive"
                /\ steps[3].fn = "find_3d_model_files"
          /\ StorageCalls(answered'.calls) # <<>>
          /\ Messages(answered'.calls) # <<>>
          /\ answered'.resp.code = 200 ]_vars

\* a reset command has been answered
ResetAnswered(hd) ==
    hd.pc = "done" /\ hd.event.kind = "text" /\ hd.event.chat /\ hd.event.text = "/reset"

\* C26: when a reset command is answered right after another one sent at most
\* 60 seconds earlier, the emergency flag is on afterwards; when the earlier
\* one was sent more than 60 seconds before, the flag is left as it was.
C26_RepeatedResets ==
    [][(/\ ResetAnswered(answered) /\ ResetAnswered(answered')
        /\ answered'.event.date > answered.event.date)
       => IF answered'.event.date - answered.event.date <= 60
          THEN IGNORE_ALL_ARCHIVES'
          ELSE IGNORE_ALL_ARCHIVES' = IGNORE_ALL_ARCHIVES]_vars

\* how often the last wrapper issued a call of one kind
Count(call) == Cardinality({ i \in 1..Len(tlast.trace) : tlast.trace[i].call = call })

\* C27: a transaction decorator whose connection cannot be ensured answers
\* 503 without calling the function; otherwise it rolls back, calls the
\* function once, commits once if the function returns and not at all if it
\* raises, and after a raise rolls back again and answers 500 without
\* letting the exception through.
C27_Decorators ==
    tlast.decorator # "none" =>
        IF ~tlast.ensured
        THEN Count("func") = 0 /\ tlast.code = 503
        ELSE /\ Len(tlast.trace) >= 2
             /\ tlast.trace[1].call = "rollback" /\ ~tlast.trace[1].raised
             /\ tlast.trace[2].call = "func"
             /\ Count("func") = 1
             /\ Count("commit") = IF tlast.func = "returns" THEN 1 ELSE 0
             /\ tlast.func # "returns" =>
                   /\ Len(tlast.trace) = 3 /\ tlast.trace[3].call = "rollback"
                   /\ tlast.code = 500
                   /\ ~tlast.propagated

(***************************************************************************)
(* Users                                                                   *)
(***************************************************************************)
\* the lines Telegram signs: id, then username, each when present
SignedLines(data) ==
    (IF data.id = {} THEN <<>> ELSE << <<"id", "=", CHOOSE v \in data.id : TRUE>> >>)
        \o (IF data.username = {} THEN <<>>
            ELSE << <<"username", "=", CHOOSE v \in data.username : TRUE>> >>)
HashMatches(data) ==
    data.hash = { [key |-> <<"sha256", TELEGRAM_BOT_SECRET>>, msg |-> SignedLines(data)] }

C22_CreateUserResult ==
    (ulast.op = "create_user" /\ ulast.ret) =>
        LET row == [telegram_id |-> ulast.telegram_id, username |-> ulast.username]
        IN row \notin ulast.before /\ users = ulast.before \cup {row}

\* C30: once ensure_db_connection has succeeded, whether or not it had to
\* make a new connection, the wrapper of error_utils.db_transaction rolls
\* back and commits on the connection in use, calls the function, and when
\* the function returns and the commit goes through its writes are committed
\* and the answer is the function's.
C30_ActiveConnection ==
    (tlast.decorator = "error_utils" /\ tlast.ensured) =>
        /\ \A i \in 1..Len(tlast.trace) :
              tlast.trace[i].call \in {"rollback", "commit"} =>
                  tlast.trace[i].on = tlast.active
        /\ Count("func") = 1
        /\ (tlast.func = "returns" /\ tlast.commit_ok) =>
              tlast.committed /\ tlast.code = 200

====
